---- MODULE Spec2Model ----
(***************************************************************************)
(* Verification model of the cdcx-api arbitrage engine.                    *)
(*                                                                         *)
(* Spec      : the execution coordinator.  One entry point runs per        *)
(*             behaviour (cmd/live, LiveDetector, or the single-shot      *)
(*             batch cmd/arbitrage); its tasks run Engine.Execute and      *)
(*             Engine.executeRealTimeOrder against an exchange whose       *)
(*             answers are nondeterministic.                               *)
(* SpecDepth : the depth analyzer (processOrderBookSide followed by        *)
(*             simulateArbitrageDepth) over bounded order books.           *)
(*                                                                         *)
(* Floats are modelled exactly: prices, volumes and fees are integers,     *)
(* percentages are kept as numerator/denominator pairs, and an amount in   *)
(* USDT is kept multiplied by 83 (the code divides INR by 83.0).           *)
(***************************************************************************)
EXTENDS Integers, Sequences, FiniteSets, TLC

(* ------------------------------ bounds --------------------------------- *)
\* concurrently launched tasks of cmd/live resp. of one LiveDetector
NumTasks == 2
\* opportunities handed to Engine.Execute by cmd/arbitrage
MaxOpps == 2
\* opportunities one detector task hands to executeArbitrageSequentially
MaxDetected == 1
\* status polls of one waitForOrderFill before its timeout
MaxPolls == 2

(* ------------------------- program constants --------------------------- *)
MaxPositionUSDT == 100
USDTINR == 83
MinVolume == 1000
MaxClipVolume == 5000
\* ExecutionConfig.MaxOrdersPerRun as configured for the runs of the model;
\* DefaultExecutionConfig sets 5, here the engine is built with the smallest
\* limit so that a run of two opportunities reaches it
MaxOrdersPerRun == 1

None == 0
Tasks == 1..NumTasks
Modes == {"live", "detector", "batch"}
Legs == {"buy", "sell", "recovery"}

\* avg_price and fee_amount values the exchange may report for a filled order
\* of each leg (a sell below and above the buy price, so that both a loss and
\* a gain occur)
AvgPrices == [buy |-> {2}, sell |-> {1, 3}, recovery |-> {1, 3}]
FeeAmount == 5

VARIABLES
    mode,            \* which entry point this process runs
    pc,              \* position of every task
    executionMutex,  \* cmd/live: package-level sync.Mutex (holder or None)
    executionMux,    \* LiveDetector.executionMux (holder or None)
    queue,           \* viableOpps still to be processed by the task's Execute loop
    liveOpp,         \* result of the last analyzeAndValidateRealTime of the task
    orders,          \* exchange-side state of the orders of the task's current attempt
    executedOrder,   \* types.ExecutedOrder being built / last returned
    polls,           \* ticks consumed by the current waitForOrderFill
    run,             \* Execute's locals: result.Orders, totalProfit, totalInvestment
    hist,            \* per attempt: what was observed and submitted (history)
    runInvested      \* history: investment summed over every task of the run (x83),
                     \* counted up to the position limit

execVars == <<mode, pc, executionMutex, executionMux, queue, liveOpp, orders,
              executedOrder, polls, run, hist, runInvested>>

VARIABLES
    dpc,             \* depth analyzer: position in analyzeOpportunityDepth
    buyBook,         \* raw "asks" of the buy market: set of [price, volume]
    sellBook,        \* raw "bids" of the sell market: set of [price, volume]
    buyBase,         \* base (quote) currency of the buy market
    sellBase,        \* base (quote) currency of the sell market
    rateCache,       \* RateManager.cache.Rates["USDT_INR"], with its age in minutes
    ticks,           \* minutes elapsed since the analysis began
    cursor,          \* processOrderBookSide: index i of its conversion loop
    askLevels,       \* buyMarket.AskLevels built so far
    bidLevels,       \* sellMarket.BidLevels built so far
    analysis,        \* result of simulateArbitrageDepth
    config           \* a.config: FeeRate (in percent) and MinNetMargin

depthVars == <<dpc, buyBook, sellBook, buyBase, sellBase, rateCache, ticks, cursor,
               askLevels, bidLevels, analysis, config>>

VARIABLES
    rpc,             \* rate oracle: position of every detection task in ConvertToINR
    calls,           \* ConvertToINR calls the detection task has still to make
    fetched          \* the rate returned to the task by fetchExchangeRate (0: none)

rateVars == <<rpc, calls, fetched>>

VARIABLES
    apc,             \* revalidator: position in analyzeAndValidateRealTime
    buyQuote,        \* quote currency of opp.BuyMarket
    sellQuote,       \* quote currency of opp.SellMarket
    oracleRate,      \* the USDT_INR rate the RateManager holds
    buyOrderBook,    \* result of GetOrderBook(opp.BuyMarket.Pair)
    sellOrderBook,   \* result of GetOrderBook(opp.SellMarket.Pair)
    realTimeOpp      \* the RealTimeOpportunity built so far

revalVars == <<apc, buyQuote, sellQuote, oracleRate, buyOrderBook, sellOrderBook,
               realTimeOpp>>

VARIABLES
    xpc,             \* pair extraction: position in ExtractArbitragePairs
    markets,         \* result of GetMarketDetails: sequence of MarketDetail
    enableAllPairs,  \* config.EnableAllPairs
    arbitragePairs,  \* the returned map, as the set of its ArbitragePairs values
    extractErr       \* the returned error

pairVars == <<xpc, markets, enableAllPairs, arbitragePairs, extractErr>>

VARIABLES
    fpc,             \* detector: position in FindOpportunities
    pairGroups,      \* the pairs argument: set of [Currency, Pairs], Pairs the group size
    unvisited,       \* groups the range loop has not reached yet
    currency,        \* the group being analysed
    pairIdx,         \* analyzeCurrency: pairs handled by its first loop
    pairPrices,      \* analyzeCurrency: the PriceInfo of the liquid pairs, by pair
    failedPairs,     \* analyzeCurrency: the pairs whose getPriceInfo failed
    opportunities,   \* FindOpportunities: the opportunities collected so far
    analysed,        \* what happened to each visited group
    findResult       \* what FindOpportunities returned

detectVars == <<fpc, pairGroups, unvisited, currency, pairIdx, pairPrices, failedPairs,
                opportunities, analysed, findResult>>

VARIABLES
    mpc,             \* recovery market: position in the attempt
    entry,           \* the caller: Engine.Execute or executeArbitrageSequentially
    detected,        \* the detected opportunity: target currency and the two markets
    buyOrderMarket,  \* Market of the submitted buy order
    recoveryMarket   \* Market of the submitted recovery order

recoveryVars == <<mpc, entry, detected, buyOrderMarket, recoveryMarket>>

VARIABLES
    program,         \* execution lock: "live" (cmd/live main) or "detector"
                     \* (LiveDetector.FindAndExecuteOpportunities)
    scanPairs,       \* the pairs map: number of pairs of every currency
    caller,          \* every call of the entry point: position, currencies its
                     \* range loop has still to visit, its WaitGroup counter
                     \* and totalOpportunities
    goroutine,       \* position of the goroutine of every call and currency
    lockHolder,      \* executionMutex / ld.executionMux: the holder or None
    activeJobs       \* ld.activeJobs: the currencies stored in the sync.Map

lockVars == <<program, scanPairs, caller, goroutine, lockHolder, activeJobs>>

\* the variables outside the execution engine, the depth analyzer and the
\* rate oracle
auxVars == <<revalVars, pairVars, detectVars, recoveryVars, lockVars>>

\* everything but the revalidator
notRevalVars == <<execVars, depthVars, rateVars, pairVars, detectVars, recoveryVars, lockVars>>

\* everything but the pair extraction
notPairVars == <<execVars, depthVars, rateVars, revalVars, detectVars, recoveryVars, lockVars>>

\* everything but the detector
notDetectVars == <<execVars, depthVars, rateVars, revalVars, pairVars, recoveryVars, lockVars>>

\* everything but the recovery market choice
notRecoveryVars == <<execVars, depthVars, rateVars, revalVars, pairVars, detectVars, lockVars>>

\* everything but the execution lock
notLockVars == <<execVars, depthVars, rateVars, revalVars, pairVars, detectVars, recoveryVars>>

vars == <<execVars, depthVars, rateVars, auxVars>>

(* ------------------------------ records -------------------------------- *)
NoOrder == [status |-> "none", total |-> 0, remaining |-> 0, avg_price |-> 0, fee_amount |-> 0]

NoOrders == [buy |-> NoOrder, sell |-> NoOrder, recovery |-> NoOrder]

NewExecutedOrder(opportunity) ==
    [PlannedVolume |-> opportunity.Volume, BuyOrderID |-> "", SellOrderID |-> "",
     VolumeExecuted |-> 0, BuyPrice |-> 0, SellPrice |-> 0, ActualProfit |-> 0,
     ActualMarginPct |-> [num |-> 0, den |-> 1], Success |-> FALSE, ErrorMessage |-> ""]

NoLiveOpp == [Viable |-> FALSE, Volume |-> 0]

NoHist == [buySeen |-> "none", sellSeen |-> "none", recoverySeen |-> "none",
           created |-> [buy |-> 0, sell |-> 0, recovery |-> 0],
           recoveryQty |-> 0, revalidated |-> "none", ended |-> FALSE]

NewRun == [Orders |-> <<>>, totalProfit |-> 0, totalInvestment |-> 0, returned |-> FALSE,
           TotalProfit |-> 0, TotalInvestment |-> 0, Successful |-> FALSE]

Participants(m) == IF m = "batch" THEN {1} ELSE Tasks

NoCache == [exists |-> FALSE, rate |-> 0, age |-> 0]

NoAnalysis == [OrderSimulations |-> <<>>, MaxProfitableOrders |-> 0,
               TotalProfitableVolume |-> 0, TotalEstimatedProfit |-> 0,
               BottleneckSide |-> ""]

\* the depth analyzer is not part of the execution entry points
DepthAtRest ==
    /\ dpc = "idle"
    /\ buyBook = {}
    /\ sellBook = {}
    /\ buyBase = "INR"
    /\ sellBase = "INR"
    /\ rateCache = NoCache
    /\ ticks = 0
    /\ cursor = 0
    /\ askLevels = <<>>
    /\ bidLevels = <<>>
    /\ analysis = NoAnalysis

DepthIdle == DepthAtRest /\ config = [FeeRatePct |-> 0, MinNetMargin |-> 0, MinLiquidity |-> 0]

NoBook == [err |-> FALSE, asks |-> {}, bids |-> {}]

NoRealTimeOpp ==
    [Viable |-> FALSE, Reason |-> "", Volume |-> 0, BuyPrice |-> 0, SellPrice |-> 0,
     MarginPct |-> [num |-> 0, den |-> 1], MaxProfitableOrders |-> 0]

\* no revalidation is running
RevalIdle ==
    /\ apc = "idle"
    /\ buyQuote = "INR"
    /\ sellQuote = "INR"
    /\ oracleRate = 0
    /\ buyOrderBook = NoBook
    /\ sellOrderBook = NoBook
    /\ realTimeOpp = NoRealTimeOpp

\* no pair extraction is running
PairIdle ==
    /\ xpc = "idle"
    /\ markets = <<>>
    /\ enableAllPairs = FALSE
    /\ arbitragePairs = {}
    /\ extractErr = FALSE

\* no detection cycle is running
DetectIdle ==
    /\ fpc = "idle"
    /\ pairGroups = {}
    /\ unvisited = {}
    /\ currency = ""
    /\ pairIdx = 0
    /\ pairPrices = {}
    /\ failedPairs = {}
    /\ opportunities = {}
    /\ analysed = {}
    /\ findResult = "none"

NoMarket == [target |-> "", quote |-> ""]

\* no attempt is choosing its markets
RecoveryIdle ==
    /\ mpc = "idle"
    /\ entry = "none"
    /\ detected = [TargetCurrency |-> "", BuyMarket |-> NoMarket, SellMarket |-> NoMarket,
                   Viable |-> FALSE]
    /\ buyOrderMarket = ""
    /\ recoveryMarket = ""

\* the sizes of the execution-lock model: concurrent calls of the entry point
\* and the currencies of the pairs map
NumCallers == 2
Callers == 1..NumCallers
LockCurrencies == {"BTC", "ETH"}
Goroutines == Callers \X LockCurrencies

\* an unlocked sync.Mutex: no goroutine holds it
NoGoroutine == <<None, "">>

LockIdle ==
    /\ program = "none"
    /\ scanPairs = [cur \in LockCurrencies |-> 0]
    /\ caller = [c \in Callers |-> [pc |-> "absent", unranged |-> {}, wg |-> 0,
                                      totalOpportunities |-> 0]]
    /\ goroutine = [g \in Goroutines |-> "absent"]
    /\ lockHolder = NoGoroutine
    /\ activeJobs = {}

AuxIdle == RevalIdle /\ PairIdle /\ DetectIdle /\ RecoveryIdle /\ LockIdle

\* no detection task is converting prices
RateIdle ==
    /\ rpc = [t \in Tasks |-> "absent"]
    /\ calls = [t \in Tasks |-> 0]
    /\ fetched = [t \in Tasks |-> 0]

ExecInit ==
    /\ mode \in Modes
    /\ pc = [t \in Tasks |-> IF t \in Participants(mode) THEN "start" ELSE "absent"]
    /\ executionMutex = None
    /\ executionMux = None
    /\ queue = [t \in Tasks |-> 0]
    /\ liveOpp = [t \in Tasks |-> NoLiveOpp]
    /\ orders = [t \in Tasks |-> NoOrders]
    /\ executedOrder = [t \in Tasks |-> NewExecutedOrder(NoLiveOpp)]
    /\ polls = [t \in Tasks |-> 0]
    /\ run = [t \in Tasks |-> NewRun]
    /\ hist = [t \in Tasks |-> NoHist]
    /\ runInvested = 0

Init == ExecInit /\ DepthIdle /\ RateIdle /\ AuxIdle

(* ------------------------ pure helpers of the code ---------------------- *)
\* mutant of MutexFree: Lock returns although another task holds the mutex
MutexFreeAlways(mu) == TRUE

\* sync.Mutex.Lock can only return when the mutex is free
MutexFree(mu) == mu = None

\* mutant of ProceedToExecute: the result of the revalidation is ignored
ProceedAlways(opp) == TRUE

\* Engine.Execute: "if !liveOpp.Viable { continue }"
ProceedToExecute(opp) == opp.Viable

\* Outcomes of analyzeAndValidateRealTime: non-viable, or viable with
\* Volume = min(maxVolume, 5000) where maxVolume >= 1000
RevalOutcomes ==
    {NoLiveOpp} \cup {[Viable |-> TRUE, Volume |-> v] : v \in {MinVolume, MaxClipVolume}}

\* mutant of PositionLimitReached: the loop is left after every attempt
PositionLimitReachedAlways(totalInvestment) == TRUE

\* Engine.Execute: "if totalInvestment >= e.config.MaxPositionUSDT { break }"
\* (totalInvestment is kept multiplied by 83)
PositionLimitReached(totalInvestment) == totalInvestment >= MaxPositionUSDT * USDTINR

\* mutant of PollOutcome: every status that is not a failure counts as a fill
PollOutcomeLax(status) ==
    IF status \in {"cancelled", "rejected"} THEN "failed" ELSE "filled"

\* waitForOrderFill: the switch on order.Status
PollOutcome(status) ==
    CASE status = "filled" -> "filled"
      [] status \in {"cancelled", "rejected"} -> "failed"
      [] OTHER -> "continue"

\* mutant of AfterBuyWait: the failed wait for the buy fill is ignored
AfterBuyWaitIgnored(buyFilled) == "buy_status"

\* executeRealTimeOrder: "if err != nil || !buyFilled { ...; return }"
AfterBuyWait(buyFilled) == IF buyFilled THEN "buy_status" ELSE "abort"

\* mutant of AfterSellWait: the failed wait for the sell fill is ignored
AfterSellWaitIgnored(sellFilled) == "sell_status"

\* executeRealTimeOrder: "if err == nil && sellFilled {" ... else fall through to recovery
AfterSellWait(sellFilled) == IF sellFilled THEN "sell_status" ELSE "recovery_create"

\* mutant of AfterRecoveryWait: a recovery order that did not fill is waited
\* for again
AfterRecoveryWaitAgain(filled) == IF filled THEN "recovery_status" ELSE "recovery_wait"

\* recoverToUSDT: "if err != nil || !filled { return RecoveryResult{Success: false} }"
AfterRecoveryWait(filled) == IF filled THEN "recovery_status" ELSE "abort"

\* executeRealTimeOrder: actualVolume := filledBuy.TotalQuantity - filledBuy.RemainingQuantity
ActualVolume(filledBuy) == filledBuy.total - filledBuy.remaining

\* executeRealTimeOrder: recoverToUSDT(opportunity.Currency, actualVolume)
RecoveryVolume(o) == o.VolumeExecuted

\* mutant of ActualProfit: a loss is recorded as zero
ActualProfitClamped(actualVolume, buyAvg, sellAvg, buyFee, sellFee) ==
    IF actualVolume * sellAvg - actualVolume * buyAvg - (buyFee + sellFee) < 0
    THEN 0
    ELSE actualVolume * sellAvg - actualVolume * buyAvg - (buyFee + sellFee)

\* executeRealTimeOrder: sellValue - buyValue - fees
ActualProfit(actualVolume, buyAvg, sellAvg, buyFee, sellFee) ==
    actualVolume * sellAvg - actualVolume * buyAvg - (buyFee + sellFee)

\* mutant of ActualMarginPct: the margin is taken on the sell value
ActualMarginPctOnSell(profit, actualVolume, buyAvg, sellAvg) ==
    [num |-> profit * 100, den |-> actualVolume * sellAvg]

\* executeRealTimeOrder: (executedOrder.ActualProfit / buyValue) * 100, kept as
\* the fraction num / den
ActualMarginPct(profit, actualVolume, buyAvg, sellAvg) ==
    [num |-> profit * 100, den |-> actualVolume * buyAvg]

\* mutant of TickOutcome: a failed status call ends the wait
TickOutcomeErrorFails(reply) == IF reply = "error" THEN "failed" ELSE PollOutcome(reply)

\* waitForOrderFill, one tick: "if err != nil { continue }", else the switch
TickOutcome(reply) == IF reply = "error" THEN "continue" ELSE PollOutcome(reply)

\* coindcx.Client.GetOrderStatus: an error, or the order as the exchange holds it
StatusReplies(o) == {"error", o.status}

\* coindcx.Client.CreateOrder: an error, a response without orders, or one order
CreateReplies == {"error", "empty", "ok"}

OpenOrder(qty) ==
    [status |-> "open", total |-> qty, remaining |-> qty, avg_price |-> 0, fee_amount |-> 0]

\* history bookkeeping: an investment total, counted up to the position limit
UpToLimit(x) == IF PositionLimitReached(x) THEN MaxPositionUSDT * USDTINR ELSE x

\* mutant of Successful: a run without a loss counts as successful
SuccessfulWithoutLoss(totalProfit) == totalProfit >= 0

\* Engine.Execute: "result.Successful = totalProfit > 0"
Successful(totalProfit) == totalProfit > 0

\* Engine.calculateSuccessRate, in percent, as the fraction num / den
calculateSuccessRate(result) ==
    IF Len(result.Orders) = 0
    THEN [num |-> 0, den |-> 1]
    ELSE [num |-> 100 * Cardinality({k \in 1..Len(result.Orders) : result.Orders[k].Success}),
          den |-> Len(result.Orders)]

\* mutant of RecoveryFailed: the failed recovery leaves no message
RecoveryFailedSilent(o) == o

\* executeRealTimeOrder: "else { executedOrder.ErrorMessage = "recovery failed" }"
RecoveryFailed(o) == [o EXCEPT !.ErrorMessage = "recovery failed"]

(* ------------------------------ Execute -------------------------------- *)
\* End of one executeRealTimeOrder call and the rest of the loop body of
\* Engine.Execute: append the order, add it to the totals, check the limit.
Finish(t, o, h) ==
    LET invest == o.VolumeExecuted * o.BuyPrice
        tp == IF o.Success THEN run[t].totalProfit + o.ActualProfit ELSE run[t].totalProfit
        ti == IF o.Success THEN run[t].totalInvestment + invest ELSE run[t].totalInvestment
    IN  /\ executedOrder' = [executedOrder EXCEPT ![t] = o]
        /\ hist' = [hist EXCEPT ![t] = [h EXCEPT !.ended = TRUE]]
        /\ run' = [run EXCEPT ![t] = [@ EXCEPT !.Orders = Append(@, o),
                                             !.totalProfit = tp,
                                             !.totalInvestment = ti]]
        /\ runInvested' = IF o.Success THEN UpToLimit(runInvested + invest) ELSE runInvested
        /\ pc' = [pc EXCEPT ![t] = IF PositionLimitReached(ti) THEN "return" ELSE "loop"]
        /\ queue' = [queue EXCEPT ![t] = @ - 1]

\* cmd/live executeOpportunity: executionMutex.Lock(), then Engine.Execute
\* filters its one-element slice (Viable and BuyMarket contains "USDT")
LiveLock(t) ==
    /\ mode = "live"
    /\ pc[t] = "start"
    /\ MutexFree(executionMutex)
    /\ executionMutex' = t
    /\ \E n \in 0..1 : queue' = [queue EXCEPT ![t] = n]
    /\ pc' = [pc EXCEPT ![t] = "loop"]
    /\ UNCHANGED <<mode, executionMux, liveOpp, orders, executedOrder, polls, run,
                   hist, runInvested>>
    /\ UNCHANGED <<depthVars, rateVars, auxVars>>

\* LiveDetector.detectAndExecute up to the lock: analyse, keep the viable ones
Detect(t) ==
    /\ mode = "detector"
    /\ pc[t] = "start"
    /\ \E found \in BOOLEAN :
          pc' = [pc EXCEPT ![t] = IF found THEN "wait_lock" ELSE "done"]
    /\ UNCHANGED <<mode, executionMutex, executionMux, queue, liveOpp, orders,
                   executedOrder, polls, run, hist, runInvested>>
    /\ UNCHANGED <<depthVars, rateVars, auxVars>>

\* LiveDetector.detectAndExecute: ld.executionMux.Lock(), then
\* executeArbitrageSequentially filters the USDT-paired opportunities
DetectorLock(t) ==
    /\ mode = "detector"
    /\ pc[t] = "wait_lock"
    /\ MutexFree(executionMux)
    /\ executionMux' = t
    /\ \E n \in 0..MaxDetected : queue' = [queue EXCEPT ![t] = n]
    /\ pc' = [pc EXCEPT ![t] = "loop"]
    /\ UNCHANGED <<mode, executionMutex, liveOpp, orders, executedOrder, polls, run,
                   hist, runInvested>>
    /\ UNCHANGED <<depthVars, rateVars, auxVars>>

\* cmd/arbitrage main: engine.Execute(opportunities), no lock taken
BatchExecute(t) ==
    /\ mode = "batch"
    /\ pc[t] = "start"
    /\ \E n \in 0..MaxOpps : queue' = [queue EXCEPT ![t] = n]
    /\ pc' = [pc EXCEPT ![t] = "loop"]
    /\ UNCHANGED <<mode, executionMutex, executionMux, liveOpp, orders, executedOrder,
                   polls, run, hist, runInvested>>
    /\ UNCHANGED <<depthVars, rateVars, auxVars>>

\* Engine.Execute loop head: analyzeAndValidateRealTime, then either "continue"
\* or the start of executeRealTimeOrder
Validate(t) ==
    /\ pc[t] = "loop"
    /\ queue[t] > 0
    /\ \E r \in RevalOutcomes :
          /\ liveOpp' = [liveOpp EXCEPT ![t] = r]
          /\ orders' = [orders EXCEPT ![t] = NoOrders]
          /\ hist' = [hist EXCEPT ![t] =
                [NoHist EXCEPT !.revalidated = IF r.Viable THEN "viable" ELSE "nonviable"]]
          /\ IF ProceedToExecute(r)
             THEN /\ pc' = [pc EXCEPT ![t] = "buy_create"]
                  /\ executedOrder' = [executedOrder EXCEPT ![t] = NewExecutedOrder(r)]
                  /\ UNCHANGED queue
             ELSE /\ queue' = [queue EXCEPT ![t] = @ - 1]
                  /\ UNCHANGED <<pc, executedOrder>>
    /\ UNCHANGED <<mode, executionMutex, executionMux, polls, run, runInvested>>
    /\ UNCHANGED <<depthVars, rateVars, auxVars>>

\* Engine.Execute after the loop: fill in the result and return; the locals
\* of the loop body go out of scope
ExecuteReturn(t) ==
    /\ \/ pc[t] = "return"
       \/ pc[t] = "loop" /\ queue[t] = 0
    /\ run' = [run EXCEPT ![t] = [@ EXCEPT !.returned = TRUE,
                                         !.TotalProfit = run[t].totalProfit,
                                         !.TotalInvestment = run[t].totalInvestment,
                                         !.Successful = Successful(run[t].totalProfit)]]
    /\ pc' = [pc EXCEPT ![t] = IF mode = "batch" THEN "done" ELSE "unlock"]
    /\ queue' = [queue EXCEPT ![t] = 0]
    /\ liveOpp' = [liveOpp EXCEPT ![t] = NoLiveOpp]
    /\ orders' = [orders EXCEPT ![t] = NoOrders]
    /\ executedOrder' = [executedOrder EXCEPT ![t] = NewExecutedOrder(NoLiveOpp)]
    /\ polls' = [polls EXCEPT ![t] = 0]
    /\ hist' = [hist EXCEPT ![t] = NoHist]
    /\ UNCHANGED <<mode, executionMutex, executionMux, runInvested>>
    /\ UNCHANGED <<depthVars, rateVars, auxVars>>

\* cmd/live executeOpportunity: the log is saved, deferred executionMutex.Unlock()
LiveUnlock(t) ==
    /\ mode = "live"
    /\ pc[t] = "unlock"
    /\ executionMutex' = None
    /\ pc' = [pc EXCEPT ![t] = "done"]
    /\ run' = [run EXCEPT ![t] = NewRun]
    /\ UNCHANGED <<mode, executionMux, queue, liveOpp, orders, executedOrder, polls,
                   hist, runInvested>>
    /\ UNCHANGED <<depthVars, rateVars, auxVars>>

\* LiveDetector.detectAndExecute: the log is saved, deferred ld.executionMux.Unlock()
DetectorUnlock(t) ==
    /\ mode = "detector"
    /\ pc[t] = "unlock"
    /\ executionMux' = None
    /\ pc' = [pc EXCEPT ![t] = "done"]
    /\ run' = [run EXCEPT ![t] = NewRun]
    /\ UNCHANGED <<mode, executionMutex, queue, liveOpp, orders, executedOrder, polls,
                   hist, runInvested>>
    /\ UNCHANGED <<depthVars, rateVars, auxVars>>

(* ------------------------ executeRealTimeOrder -------------------------- *)
\* Step 1: CreateOrder(side buy, TotalQuantity opportunity.Volume)
BuyCreate(t) ==
    /\ pc[t] = "buy_create"
    /\ \E reply \in CreateReplies :
          LET h == [hist[t] EXCEPT !.created.buy = @ + 1] IN
          IF reply = "ok"
          THEN /\ orders' = [orders EXCEPT ![t].buy = OpenOrder(liveOpp[t].Volume)]
               /\ executedOrder' = [executedOrder EXCEPT ![t].BuyOrderID = "buy"]
               /\ hist' = [hist EXCEPT ![t] = h]
               /\ pc' = [pc EXCEPT ![t] = "buy_wait"]
               /\ polls' = [polls EXCEPT ![t] = 0]
               /\ UNCHANGED <<queue, run, runInvested>>
          ELSE /\ Finish(t, [executedOrder[t] EXCEPT !.ErrorMessage =
                                IF reply = "error" THEN "buy failed" ELSE "no buy order returned"],
                         [h EXCEPT !.buySeen = IF reply = "error" THEN "create_error" ELSE "no_order"])
               /\ UNCHANGED <<orders, polls>>
    /\ UNCHANGED <<mode, executionMutex, executionMux, liveOpp>>
    /\ UNCHANGED <<depthVars, rateVars, auxVars>>

\* waitForOrderFill(buyOrderID): one ticker tick, GetOrderStatus, switch on the status
BuyWaitTick(t) ==
    /\ pc[t] = "buy_wait"
    /\ polls[t] < MaxPolls
    /\ \E reply \in StatusReplies(orders[t].buy) :
          LET outcome == TickOutcome(reply) IN
          IF outcome = "continue"
          THEN /\ polls' = [polls EXCEPT ![t] = @ + 1]
               /\ UNCHANGED <<pc, queue, executedOrder, run, hist, runInvested>>
          ELSE IF AfterBuyWait(outcome = "filled") = "buy_status"
          THEN /\ pc' = [pc EXCEPT ![t] = "buy_status"]
               /\ hist' = [hist EXCEPT ![t].buySeen = reply]
               /\ UNCHANGED <<polls, queue, executedOrder, run, runInvested>>
          ELSE /\ Finish(t, [executedOrder[t] EXCEPT !.ErrorMessage = "buy timeout"],
                         [hist[t] EXCEPT !.buySeen = reply])
               /\ UNCHANGED polls
    /\ UNCHANGED <<mode, executionMutex, executionMux, liveOpp, orders>>
    /\ UNCHANGED <<depthVars, rateVars, auxVars>>

\* waitForOrderFill(buyOrderID): the timeout channel fires
BuyWaitTimeout(t) ==
    /\ pc[t] = "buy_wait"
    /\ IF AfterBuyWait(FALSE) = "buy_status"
       THEN /\ pc' = [pc EXCEPT ![t] = "buy_status"]
            /\ hist' = [hist EXCEPT ![t].buySeen = "timeout"]
            /\ UNCHANGED <<queue, executedOrder, run, runInvested>>
       ELSE Finish(t, [executedOrder[t] EXCEPT !.ErrorMessage = "buy timeout"],
                   [hist[t] EXCEPT !.buySeen = "timeout"])
    /\ UNCHANGED <<mode, executionMutex, executionMux, liveOpp, orders, polls>>
    /\ UNCHANGED <<depthVars, rateVars, auxVars>>

\* "Get buy details": GetOrderStatus(buyOrderID), VolumeExecuted and BuyPrice
BuyStatus(t) ==
    /\ pc[t] = "buy_status"
    /\ \E reply \in StatusReplies(orders[t].buy) :
          IF reply = "error"
          THEN Finish(t, [executedOrder[t] EXCEPT !.ErrorMessage = "buy status error"], hist[t])
          ELSE /\ executedOrder' = [executedOrder EXCEPT
                       ![t].VolumeExecuted = ActualVolume(orders[t].buy),
                       ![t].BuyPrice = orders[t].buy.avg_price]
               /\ pc' = [pc EXCEPT ![t] = "sell_create"]
               /\ UNCHANGED <<queue, run, hist, runInvested>>
    /\ UNCHANGED <<mode, executionMutex, executionMux, liveOpp, orders, polls>>
    /\ UNCHANGED <<depthVars, rateVars, auxVars>>

\* Step 2: CreateOrder(side sell, TotalQuantity actualVolume)
SellCreate(t) ==
    /\ pc[t] = "sell_create"
    /\ \E reply \in CreateReplies :
          LET h == [hist[t] EXCEPT !.created.sell = @ + 1] IN
          IF reply = "ok"
          THEN /\ orders' = [orders EXCEPT ![t].sell = OpenOrder(executedOrder[t].VolumeExecuted)]
               /\ executedOrder' = [executedOrder EXCEPT ![t].SellOrderID = "sell"]
               /\ hist' = [hist EXCEPT ![t] = h]
               /\ pc' = [pc EXCEPT ![t] = "sell_wait"]
               /\ polls' = [polls EXCEPT ![t] = 0]
          ELSE /\ hist' = [hist EXCEPT ![t] =
                      [h EXCEPT !.sellSeen = IF reply = "error" THEN "create_error" ELSE "no_order"]]
               /\ pc' = [pc EXCEPT ![t] = "recovery_create"]
               /\ UNCHANGED <<orders, executedOrder, polls>>
    /\ UNCHANGED <<mode, executionMutex, executionMux, queue, liveOpp, run, runInvested>>
    /\ UNCHANGED <<depthVars, rateVars, auxVars>>

\* waitForOrderFill(sellOrderID): one tick
SellWaitTick(t) ==
    /\ pc[t] = "sell_wait"
    /\ polls[t] < MaxPolls
    /\ \E reply \in StatusReplies(orders[t].sell) :
          LET outcome == TickOutcome(reply) IN
          IF outcome = "continue"
          THEN /\ polls' = [polls EXCEPT ![t] = @ + 1]
               /\ UNCHANGED <<pc, hist>>
          ELSE /\ pc' = [pc EXCEPT ![t] = AfterSellWait(outcome = "filled")]
               /\ hist' = [hist EXCEPT ![t].sellSeen = reply]
               /\ UNCHANGED polls
    /\ UNCHANGED <<mode, executionMutex, executionMux, queue, liveOpp, orders, executedOrder,
                   run, runInvested>>
    /\ UNCHANGED <<depthVars, rateVars, auxVars>>

\* waitForOrderFill(sellOrderID): the timeout channel fires
SellWaitTimeout(t) ==
    /\ pc[t] = "sell_wait"
    /\ pc' = [pc EXCEPT ![t] = AfterSellWait(FALSE)]
    /\ hist' = [hist EXCEPT ![t].sellSeen = "timeout"]
    /\ UNCHANGED <<mode, executionMutex, executionMux, queue, liveOpp, orders, executedOrder,
                   polls, run, runInvested>>
    /\ UNCHANGED <<depthVars, rateVars, auxVars>>

\* GetOrderStatus(sellOrderID) after the sell fill, profit of the arbitrage
SellStatus(t) ==
    /\ pc[t] = "sell_status"
    /\ \E reply \in StatusReplies(orders[t].sell) :
          IF reply = "error"
          THEN /\ pc' = [pc EXCEPT ![t] = "recovery_create"]
               /\ hist' = [hist EXCEPT ![t].sellSeen = "status_error"]
               /\ UNCHANGED <<queue, executedOrder, run, runInvested>>
          ELSE Finish(t, [executedOrder[t] EXCEPT
                            !.SellPrice = orders[t].sell.avg_price,
                            !.ActualProfit = ActualProfit(executedOrder[t].VolumeExecuted,
                                                orders[t].buy.avg_price, orders[t].sell.avg_price,
                                                orders[t].buy.fee_amount, orders[t].sell.fee_amount),
                            !.ActualMarginPct = ActualMarginPct(
                                                ActualProfit(executedOrder[t].VolumeExecuted,
                                                    orders[t].buy.avg_price, orders[t].sell.avg_price,
                                                    orders[t].buy.fee_amount, orders[t].sell.fee_amount),
                                                executedOrder[t].VolumeExecuted,
                                                orders[t].buy.avg_price, orders[t].sell.avg_price),
                            !.Success = TRUE],
                      hist[t])
    /\ UNCHANGED <<mode, executionMutex, executionMux, liveOpp, orders, polls>>
    /\ UNCHANGED <<depthVars, rateVars, auxVars>>

\* Step 3, recoverToUSDT: CreateOrder(side sell, Market currency+"USDT", volume)
RecoveryCreate(t) ==
    /\ pc[t] = "recovery_create"
    /\ \E reply \in CreateReplies :
          LET qty == RecoveryVolume(executedOrder[t])
              h == [hist[t] EXCEPT !.created.recovery = @ + 1, !.recoveryQty = qty] IN
          IF reply = "ok"
          THEN /\ orders' = [orders EXCEPT ![t].recovery = OpenOrder(qty)]
               /\ hist' = [hist EXCEPT ![t] = h]
               /\ pc' = [pc EXCEPT ![t] = "recovery_wait"]
               /\ polls' = [polls EXCEPT ![t] = 0]
               /\ UNCHANGED <<queue, executedOrder, run, runInvested>>
          ELSE /\ Finish(t, RecoveryFailed(executedOrder[t]),
                         [h EXCEPT !.recoverySeen = IF reply = "error" THEN "create_error" ELSE "no_order"])
               /\ UNCHANGED <<orders, polls>>
    /\ UNCHANGED <<mode, executionMutex, executionMux, liveOpp>>
    /\ UNCHANGED <<depthVars, rateVars, auxVars>>

\* recoverToUSDT: waitForOrderFill(orderID, 15), one tick
RecoveryWaitTick(t) ==
    /\ pc[t] = "recovery_wait"
    /\ polls[t] < MaxPolls
    /\ \E reply \in StatusReplies(orders[t].recovery) :
          LET outcome == TickOutcome(reply) IN
          IF outcome = "continue"
          THEN /\ polls' = [polls EXCEPT ![t] = @ + 1]
               /\ UNCHANGED <<pc, queue, executedOrder, run, hist, runInvested>>
          ELSE IF AfterRecoveryWait(outcome = "filled") # "abort"
          THEN /\ pc' = [pc EXCEPT ![t] = AfterRecoveryWait(outcome = "filled")]
               /\ hist' = [hist EXCEPT ![t].recoverySeen = reply]
               /\ UNCHANGED <<polls, queue, executedOrder, run, runInvested>>
          ELSE /\ Finish(t, RecoveryFailed(executedOrder[t]),
                         [hist[t] EXCEPT !.recoverySeen = reply])
               /\ UNCHANGED polls
    /\ UNCHANGED <<mode, executionMutex, executionMux, liveOpp, orders>>
    /\ UNCHANGED <<depthVars, rateVars, auxVars>>

\* recoverToUSDT: the timeout channel of waitForOrderFill fires
RecoveryWaitTimeout(t) ==
    /\ pc[t] = "recovery_wait"
    /\ IF AfterRecoveryWait(FALSE) # "abort"
       THEN /\ pc' = [pc EXCEPT ![t] = AfterRecoveryWait(FALSE)]
            /\ UNCHANGED <<queue, executedOrder, run, hist, runInvested>>
       ELSE Finish(t, RecoveryFailed(executedOrder[t]),
                   [hist[t] EXCEPT !.recoverySeen = "timeout"])
    /\ UNCHANGED <<mode, executionMutex, executionMux, liveOpp, orders, polls>>
    /\ UNCHANGED <<depthVars, rateVars, auxVars>>

\* recoverToUSDT: GetOrderStatus(orderID) after the fill, profit of the recovery
RecoveryStatus(t) ==
    /\ pc[t] = "recovery_status"
    /\ \E reply \in StatusReplies(orders[t].recovery) :
          IF reply = "error"
          THEN Finish(t, RecoveryFailed(executedOrder[t]),
                      [hist[t] EXCEPT !.recoverySeen = "status_error"])
          ELSE Finish(t, [executedOrder[t] EXCEPT
                            !.ActualProfit = ActualProfit(executedOrder[t].VolumeExecuted,
                                                orders[t].buy.avg_price, orders[t].recovery.avg_price,
                                                orders[t].buy.fee_amount, orders[t].recovery.fee_amount),
                            !.ActualMarginPct = ActualMarginPct(
                                                ActualProfit(executedOrder[t].VolumeExecuted,
                                                    orders[t].buy.avg_price, orders[t].recovery.avg_price,
                                                    orders[t].buy.fee_amount, orders[t].recovery.fee_amount),
                                                executedOrder[t].VolumeExecuted,
                                                orders[t].buy.avg_price, orders[t].recovery.avg_price),
                            !.SellPrice = orders[t].recovery.avg_price,
                            !.SellOrderID = "recovery",
                            !.Success = TRUE],
                      hist[t])
    /\ UNCHANGED <<mode, executionMutex, executionMux, liveOpp, orders, polls>>
    /\ UNCHANGED <<depthVars, rateVars, auxVars>>

(* ------------------------------ exchange -------------------------------- *)
\* The exchange moves an open order to a terminal status; a filled order
\* reports remaining_quantity 0 with some avg_price and its fee_amount.
ExchangeUpdate(t, leg) ==
    /\ orders[t][leg].status = "open"
    /\ \/ \E p \in AvgPrices[leg] :
             orders' = [orders EXCEPT ![t][leg] =
                 [@ EXCEPT !.status = "filled", !.remaining = 0, !.avg_price = p,
                           !.fee_amount = FeeAmount]]
       \/ \E s \in {"cancelled", "rejected"} :
             orders' = [orders EXCEPT ![t][leg].status = s]
    /\ UNCHANGED <<mode, pc, executionMutex, executionMux, queue, liveOpp, executedOrder,
                   polls, run, hist, runInvested>>
    /\ UNCHANGED <<depthVars, rateVars, auxVars>>

Next ==
    \/ \E t \in Tasks : LiveLock(t)
    \/ \E t \in Tasks : Detect(t)
    \/ \E t \in Tasks : DetectorLock(t)
    \/ \E t \in Tasks : BatchExecute(t)
    \/ \E t \in Tasks : Validate(t)
    \/ \E t \in Tasks : ExecuteReturn(t)
    \/ \E t \in Tasks : LiveUnlock(t)
    \/ \E t \in Tasks : DetectorUnlock(t)
    \/ \E t \in Tasks : BuyCreate(t)
    \/ \E t \in Tasks : BuyWaitTick(t)
    \/ \E t \in Tasks : BuyWaitTimeout(t)
    \/ \E t \in Tasks : BuyStatus(t)
    \/ \E t \in Tasks : SellCreate(t)
    \/ \E t \in Tasks : SellWaitTick(t)
    \/ \E t \in Tasks : SellWaitTimeout(t)
    \/ \E t \in Tasks : SellStatus(t)
    \/ \E t \in Tasks : RecoveryCreate(t)
    \/ \E t \in Tasks : RecoveryWaitTick(t)
    \/ \E t \in Tasks : RecoveryWaitTimeout(t)
    \/ \E t \in Tasks : RecoveryStatus(t)
    \/ \E t \in Tasks, leg \in Legs : ExchangeUpdate(t, leg)

Spec == Init /\ [][Next]_vars

\* the steps of executeRealTimeOrder (and recoverToUSDT) of one task
AttemptStep(t) ==
    \/ BuyCreate(t)
    \/ BuyWaitTick(t)
    \/ BuyWaitTimeout(t)
    \/ BuyStatus(t)
    \/ SellCreate(t)
    \/ SellWaitTick(t)
    \/ SellWaitTimeout(t)
    \/ SellStatus(t)
    \/ RecoveryCreate(t)
    \/ RecoveryWaitTick(t)
    \/ RecoveryWaitTimeout(t)
    \/ RecoveryStatus(t)

\* cmd/arbitrage: the process is one Engine.Execute call over the detected
\* opportunities
InitBatch == Init /\ mode = "batch"

NextBatch ==
    \/ \E t \in Tasks : BatchExecute(t)
    \/ \E t \in Tasks : Validate(t)
    \/ \E t \in Tasks : ExecuteReturn(t)
    \/ \E t \in Tasks : BuyCreate(t)
    \/ \E t \in Tasks : BuyWaitTick(t)
    \/ \E t \in Tasks : BuyWaitTimeout(t)
    \/ \E t \in Tasks : BuyStatus(t)
    \/ \E t \in Tasks : SellCreate(t)
    \/ \E t \in Tasks : SellWaitTick(t)
    \/ \E t \in Tasks : SellWaitTimeout(t)
    \/ \E t \in Tasks : SellStatus(t)
    \/ \E t \in Tasks : RecoveryCreate(t)
    \/ \E t \in Tasks : RecoveryWaitTick(t)
    \/ \E t \in Tasks : RecoveryWaitTimeout(t)
    \/ \E t \in Tasks : RecoveryStatus(t)
    \/ \E t \in Tasks, leg \in Legs : ExchangeUpdate(t, leg)

SpecBatch == InitBatch /\ [][NextBatch]_vars

\* A goroutine inside executeRealTimeOrder keeps running: the HTTP client of
\* the exchange calls has a 30 s timeout, the ticker and the timeout channel
\* of waitForOrderFill fire.
SpecFair == InitBatch /\ [][NextBatch]_vars /\ \A t \in Participants("batch") : WF_vars(AttemptStep(t))

(* ------------------------------ shutdown ------------------------------- *)
\* SIGINT / SIGTERM reach the process. Neither main nor the detector installs
\* a handler (no signal.Notify, no context), so the Go runtime's default
\* disposition applies: the process exits at once and every goroutine stops
\* where it is. The exchange keeps the orders that were already submitted.
ShutdownSignal ==
    /\ mode # "none"
    /\ \E t \in Tasks : pc[t] # "killed"
    /\ pc' = [t \in Tasks |-> "killed"]
    /\ UNCHANGED <<mode, executionMutex, executionMux, queue, liveOpp, orders,
                   executedOrder, polls, run, hist, runInvested>>
    /\ UNCHANGED <<depthVars, rateVars, auxVars>>

NextShutdown == Next \/ ShutdownSignal

SpecShutdown == Init /\ [][NextShutdown]_vars

(* ============================ depth analyzer ============================ *)
\* bounds of the order books fed to the analyzer
MaxBookLevels == 2
MaxTicks == 1

\* program constants: types.DefaultConfig
FeeRatePct == 2
MinNetMargin == 2
MaxOrderLevels == 10
CacheDuration == 5

\* program constant: types.DefaultConfig
MinLiquidity == 100

\* types.DefaultConfig
DefaultConfig ==
    [FeeRatePct |-> FeeRatePct, MinNetMargin |-> MinNetMargin, MinLiquidity |-> MinLiquidity]

\* the configurations handed to NewAnalyzer: the default one, and one without
\* fees that accepts every non-negative net margin
Configs == {DefaultConfig, [DefaultConfig EXCEPT !.FeeRatePct = 0, !.MinNetMargin = 0]}

\* native prices, volumes and USDT/INR ticker rates of the bounded inputs
BookPrices == {100, 102, 110}
BookVolumes == {20, 30, 50}
Rates == {1, 2}
BaseCurrencies == {"INR", "USDT"}

BookLevel == [price : BookPrices, volume : BookVolumes]

\* a raw order-book side is a JSON object keyed by price: one volume per price
Books ==
    {b \in SUBSET BookLevel :
        /\ Cardinality(b) <= MaxBookLevels
        /\ \A x, y \in b : x.price = y.price => x = y}

\* processOrderBookSide: sort.Slice, bids by descending and asks by ascending price
Before(x, y, side) == IF side = "bid" THEN x.price > y.price ELSE x.price < y.price

RECURSIVE SortLevels(_, _)
SortLevels(b, side) ==
    IF b = {} THEN <<>>
    ELSE LET first == CHOOSE x \in b : \A y \in b \ {x} : Before(x, y, side)
         IN  <<first>> \o SortLevels(b \ {first}, side)

\* RateManager.ConvertToINR: the possible results for one call, each with the
\* cache it leaves behind (fetchExchangeRate fails or returns a ticker rate)
ConvertToINR(price, fromCurrency, cache) ==
    IF fromCurrency = "INR"
    THEN {[err |-> FALSE, priceINR |-> price, cache |-> cache]}
    ELSE IF cache.exists /\ cache.age < CacheDuration
    THEN {[err |-> FALSE, priceINR |-> price * cache.rate, cache |-> cache]}
    ELSE {[err |-> TRUE, priceINR |-> 0, cache |-> cache]} \cup
         {[err |-> FALSE, priceINR |-> price * r,
           cache |-> [exists |-> TRUE, rate |-> r, age |-> 0]] : r \in Rates}

\* processOrderBookSide: maxLevels of the conversion loop
SideLevels(b) == IF Cardinality(b) < MaxOrderLevels THEN Cardinality(b) ELSE MaxOrderLevels

Cumulative(levels) == IF levels = <<>> THEN 0 ELSE levels[Len(levels)].Cumulative

\* processOrderBookSide: the enhanced level appended for one raw level
Enhanced(level, priceINR, levels) ==
    [Price |-> level.price, Volume |-> level.volume, PriceINR |-> priceINR,
     Cumulative |-> Cumulative(levels) + level.volume,
     VolumeINR |-> level.volume * priceINR]

BestINR(levels) == IF levels = <<>> THEN 0 ELSE levels[1].PriceINR

\* mutant of AddTo: the running total is replaced, not increased
AddToReplaces(cumulative, amount) == amount

\* simulateArbitrageDepth: "cumulativeVolume += tradeableVolume" and the like
AddTo(cumulative, amount) == cumulative + amount

\* mutant of EstimatedFees100: no fee is charged
EstimatedFees100None(tradeValueINR) == 0

\* simulateArbitrageDepth: "estimatedFees := tradeValueINR * a.config.FeeRate"
EstimatedFees100(tradeValueINR) == tradeValueINR * config.FeeRatePct

\* simulateArbitrageDepth: one iteration of the walk.  Amounts that the code
\* multiplies by FeeRate (0.02) are kept multiplied by 100; NetMarginPct,
\* (netMargin / tradeValueINR) * 100, is the fraction NetMarginPctNum /
\* NetMarginPctDen with the common factor tradeableVolume cancelled.
Simulation(orderNumber, buyLevel, sellLevel, sims) ==
    LET tradeableVolume == IF sellLevel.Volume < buyLevel.Volume
                           THEN sellLevel.Volume ELSE buyLevel.Volume
        grossMargin == sellLevel.PriceINR - buyLevel.PriceINR
        tradeValueINR == tradeableVolume * buyLevel.PriceINR
        estimatedFees100 == EstimatedFees100(tradeValueINR)
        netMargin100 == 100 * grossMargin * tradeableVolume - estimatedFees100
        prev == IF sims = <<>>
                THEN [Volume |-> 0, VolumeINR |-> 0, NetProfit100 |-> 0]
                ELSE sims[Len(sims)].Cumulative
    IN  [OrderNumber |-> orderNumber,
         BuyPrice |-> buyLevel.PriceINR,
         SellPrice |-> sellLevel.PriceINR,
         Volume |-> tradeableVolume,
         VolumeINR |-> tradeValueINR,
         GrossMargin |-> grossMargin,
         EstimatedFees100 |-> estimatedFees100,
         NetMargin100 |-> netMargin100,
         NetMarginPctNum |-> 100 * grossMargin - config.FeeRatePct * buyLevel.PriceINR,
         NetMarginPctDen |-> buyLevel.PriceINR,
         Cumulative |-> [Volume |-> AddTo(prev.Volume, tradeableVolume),
                         VolumeINR |-> AddTo(prev.VolumeINR, tradeValueINR),
                         NetProfit100 |-> AddTo(prev.NetProfit100, netMargin100)]]

\* mutant of Profitable: the threshold is not applied
ProfitableAlways(sim) == sim.NetMarginPctDen > 0

\* simulateArbitrageDepth: "profitable := netMarginPct >= a.config.MinNetMargin"
Profitable(sim) == sim.NetMarginPctNum >= config.MinNetMargin * sim.NetMarginPctDen

\* simulateArbitrageDepth: the walk over the two sides; returns the fills
\* and the two cursors at the end of the loop
RECURSIVE Walk(_, _, _, _, _, _)
Walk(asks, bids, buyLevelIdx, sellLevelIdx, orderNumber, sims) ==
    IF buyLevelIdx > Len(asks) \/ sellLevelIdx > Len(bids)
    THEN [sims |-> sims, buyLevelIdx |-> buyLevelIdx, sellLevelIdx |-> sellLevelIdx]
    ELSE LET buyLevel == asks[buyLevelIdx]
             sellLevel == bids[sellLevelIdx]
             sim == Simulation(orderNumber, buyLevel, sellLevel, sims)
         IN  IF ~Profitable(sim)
             THEN [sims |-> sims, buyLevelIdx |-> buyLevelIdx, sellLevelIdx |-> sellLevelIdx]
             ELSE Walk(asks, bids,
                       IF buyLevel.Volume <= sellLevel.Volume THEN buyLevelIdx + 1 ELSE buyLevelIdx,
                       IF sellLevel.Volume <= buyLevel.Volume THEN sellLevelIdx + 1 ELSE sellLevelIdx,
                       orderNumber + 1,
                       Append(sims, sim))

\* simulateArbitrageDepth: "Move to next levels"; the cursor pairs <<ask, bid>>
\* the loop goes through from <<buyLevelIdx, sellLevelIdx>> when no step stops it
RECURSIVE WalkCursors(_, _, _, _)
WalkCursors(asks, bids, buyLevelIdx, sellLevelIdx) ==
    IF buyLevelIdx > Len(asks) \/ sellLevelIdx > Len(bids)
    THEN <<>>
    ELSE <<<<buyLevelIdx, sellLevelIdx>>>> \o
         WalkCursors(asks, bids,
                     IF asks[buyLevelIdx].Volume <= bids[sellLevelIdx].Volume
                     THEN buyLevelIdx + 1 ELSE buyLevelIdx,
                     IF bids[sellLevelIdx].Volume <= asks[buyLevelIdx].Volume
                     THEN sellLevelIdx + 1 ELSE sellLevelIdx)

\* simulateArbitrageDepth
simulateArbitrageDepth(asks, bids) ==
    IF BestINR(asks) >= BestINR(bids)
    THEN NoAnalysis
    ELSE LET w == Walk(asks, bids, 1, 1, 1, <<>>)
             last == IF w.sims = <<>>
                     THEN [Volume |-> 0, VolumeINR |-> 0, NetProfit100 |-> 0]
                     ELSE w.sims[Len(w.sims)].Cumulative
         IN  [OrderSimulations |-> w.sims,
              MaxProfitableOrders |-> IF w.sims = <<>> THEN 0
                                      ELSE w.sims[Len(w.sims)].OrderNumber,
              TotalProfitableVolume |-> last.Volume,
              TotalEstimatedProfit |-> last.NetProfit100,
              BottleneckSide |-> IF w.buyLevelIdx > Len(asks) THEN "buy" ELSE "sell"]

\* the cache read by NewRateManager holds no rate (or an expired one, which
\* behaves alike), or a rate that is about to expire
InitialCaches ==
    {NoCache} \cup
    {[exists |-> TRUE, rate |-> r, age |-> CacheDuration - 1] : r \in Rates}

DepthInit ==
    /\ dpc = "asks"
    /\ buyBook \in Books
    /\ sellBook \in Books
    /\ buyBase \in BaseCurrencies
    /\ sellBase \in BaseCurrencies
    /\ rateCache \in InitialCaches
    /\ ticks = 0
    /\ cursor = 0
    /\ askLevels = <<>>
    /\ bidLevels = <<>>
    /\ analysis = NoAnalysis

\* the execution entry points are not part of the depth analyzer
ExecIdle ==
    /\ mode = "none"
    /\ pc = [t \in Tasks |-> "absent"]
    /\ executionMutex = None
    /\ executionMux = None
    /\ queue = [t \in Tasks |-> 0]
    /\ liveOpp = [t \in Tasks |-> NoLiveOpp]
    /\ orders = [t \in Tasks |-> NoOrders]
    /\ executedOrder = [t \in Tasks |-> NewExecutedOrder(NoLiveOpp)]
    /\ polls = [t \in Tasks |-> 0]
    /\ run = [t \in Tasks |-> NewRun]
    /\ hist = [t \in Tasks |-> NoHist]
    /\ runInvested = 0

InitDepth == DepthInit /\ config = DefaultConfig /\ ExecIdle /\ RateIdle /\ AuxIdle

\* the analyzer built with any of the configurations
InitDepthConfig == DepthInit /\ config \in Configs /\ ExecIdle /\ RateIdle /\ AuxIdle

\* getEnhancedOrderBook(buyPair), processOrderBookSide(asks): one iteration of
\* the conversion loop; a level whose conversion fails is skipped
ConvertAskLevel ==
    /\ dpc = "asks"
    /\ cursor < SideLevels(buyBook)
    /\ LET level == SortLevels(buyBook, "ask")[cursor + 1] IN
       \E c \in ConvertToINR(level.price, buyBase, rateCache) :
          /\ rateCache' = c.cache
          /\ askLevels' = IF c.err THEN askLevels
                          ELSE Append(askLevels, Enhanced(level, c.priceINR, askLevels))
    /\ cursor' = cursor + 1
    /\ UNCHANGED <<dpc, buyBook, sellBook, buyBase, sellBase, ticks, bidLevels, analysis,
                   config>>
    /\ UNCHANGED <<execVars, rateVars, auxVars>>

\* processOrderBookSide(asks) returns; the sell market's book is fetched
AskSideDone ==
    /\ dpc = "asks"
    /\ cursor = SideLevels(buyBook)
    /\ dpc' = "bids"
    /\ cursor' = 0
    /\ UNCHANGED <<buyBook, sellBook, buyBase, sellBase, rateCache, ticks, askLevels,
                   bidLevels, analysis, config>>
    /\ UNCHANGED <<execVars, rateVars, auxVars>>

\* getEnhancedOrderBook(sellPair), processOrderBookSide(bids): one iteration
ConvertBidLevel ==
    /\ dpc = "bids"
    /\ cursor < SideLevels(sellBook)
    /\ LET level == SortLevels(sellBook, "bid")[cursor + 1] IN
       \E c \in ConvertToINR(level.price, sellBase, rateCache) :
          /\ rateCache' = c.cache
          /\ bidLevels' = IF c.err THEN bidLevels
                          ELSE Append(bidLevels, Enhanced(level, c.priceINR, bidLevels))
    /\ cursor' = cursor + 1
    /\ UNCHANGED <<dpc, buyBook, sellBook, buyBase, sellBase, ticks, askLevels, analysis,
                   config>>
    /\ UNCHANGED <<execVars, rateVars, auxVars>>

\* analyzeOpportunityDepth: both books are built, simulateArbitrageDepth runs
Simulate ==
    /\ dpc = "bids"
    /\ cursor = SideLevels(sellBook)
    /\ analysis' = simulateArbitrageDepth(askLevels, bidLevels)
    /\ dpc' = "done"
    /\ UNCHANGED <<buyBook, sellBook, buyBase, sellBase, rateCache, ticks, cursor,
                   askLevels, bidLevels, config>>
    /\ UNCHANGED <<execVars, rateVars, auxVars>>

\* a minute passes while the books are fetched and converted; the cached
\* rate ages (time.Since(rate.Timestamp))
MinutePasses ==
    /\ dpc \in {"asks", "bids"}
    /\ ticks < MaxTicks
    /\ ticks' = ticks + 1
    /\ rateCache' = IF rateCache.exists /\ rateCache.age < CacheDuration
                    THEN [rateCache EXCEPT !.age = @ + 1] ELSE rateCache
    /\ UNCHANGED <<dpc, buyBook, sellBook, buyBase, sellBase, cursor, askLevels,
                   bidLevels, analysis, config>>
    /\ UNCHANGED <<execVars, rateVars, auxVars>>

NextDepth ==
    \/ ConvertAskLevel
    \/ AskSideDone
    \/ ConvertBidLevel
    \/ Simulate
    \/ MinutePasses

SpecDepth == InitDepth /\ [][NextDepth]_vars

SpecDepthConfig == InitDepthConfig /\ [][NextDepth]_vars

(* ============================= rate oracle ============================== *)
\* ConvertToINR calls one detection task makes (best bid and best ask of a pair)
MaxCalls == 2

\* ConvertToINR: "if rate, exists := ...; exists { if time.Since(rate.Timestamp)
\* < rm.config.CacheDuration"
CacheValid(cache) == cache.exists /\ cache.age < CacheDuration

\* the detection goroutines of FindAndExecuteOpportunities share one RateManager
RateInit ==
    /\ rpc = [t \in Tasks |-> "call"]
    /\ calls \in [Tasks -> 1..MaxCalls]
    /\ fetched = [t \in Tasks |-> 0]
    /\ rateCache \in InitialCaches
    /\ ticks = 0
    /\ dpc = "idle"
    /\ buyBook = {}
    /\ sellBook = {}
    /\ buyBase = "INR"
    /\ sellBase = "INR"
    /\ cursor = 0
    /\ askLevels = <<>>
    /\ bidLevels = <<>>
    /\ analysis = NoAnalysis
    /\ config = DefaultConfig

InitRate == RateInit /\ ExecIdle /\ AuxIdle

\* the other tasks that are inside an access of the map cache.Rates
Accessing(t, positions) == {u \in Tasks \ {t} : rpc[u] \in positions}

\* "fatal error: concurrent map read and map write": the runtime ends the process
Crashed == [t \in Tasks |-> "crashed"]

\* ConvertToINR returns to getPriceInfo, which makes its next call or is done
Returned(t) ==
    /\ rpc' = [rpc EXCEPT ![t] = IF calls[t] > 1 THEN "call" ELSE "done"]
    /\ calls' = [calls EXCEPT ![t] = @ - 1]

\* ConvertToINR for a non-INR currency: the lookup rm.cache.Rates[cacheKey] begins
LookupBegin(t) ==
    /\ rpc[t] = "call"
    /\ rpc' = [rpc EXCEPT ![t] = "reading"]
    /\ UNCHANGED <<calls, fetched, depthVars, execVars, auxVars>>

\* the lookup ends.  Unsynchronized with a concurrent insert it is a data race:
\* it may see the entry or not, or the runtime ends the process
LookupEnd(t) ==
    /\ rpc[t] = "reading"
    /\ \/ /\ CacheValid(rateCache)
          /\ Returned(t)
          /\ UNCHANGED fetched
       \/ /\ ~CacheValid(rateCache)
          /\ rpc' = [rpc EXCEPT ![t] = "fetch"]
          /\ UNCHANGED <<calls, fetched>>
       \/ /\ Accessing(t, {"writing"}) # {}
          /\ \/ Returned(t) /\ UNCHANGED fetched
             \/ rpc' = [rpc EXCEPT ![t] = "fetch"] /\ UNCHANGED <<calls, fetched>>
             \/ rpc' = Crashed /\ UNCHANGED <<calls, fetched>>
    /\ UNCHANGED <<depthVars, execVars, auxVars>>

\* fetchExchangeRate: the ticker request is sent upstream
FetchIssue(t) ==
    /\ rpc[t] = "fetch"
    /\ rpc' = [rpc EXCEPT ![t] = "fetching"]
    /\ UNCHANGED <<calls, fetched, depthVars, execVars, auxVars>>

\* fetchExchangeRate returns an error (ConvertToINR returns it) or a rate
FetchReply(t) ==
    /\ rpc[t] = "fetching"
    /\ \/ /\ Returned(t)
          /\ UNCHANGED fetched
       \/ /\ \E r \in Rates : fetched' = [fetched EXCEPT ![t] = r]
          /\ rpc' = [rpc EXCEPT ![t] = "insert"]
          /\ UNCHANGED calls
    /\ UNCHANGED <<depthVars, execVars, auxVars>>

\* "rm.cache.Rates[cacheKey] = rate" begins; racing with another access of
\* the map the runtime may end the process
InsertBegin(t) ==
    /\ rpc[t] = "insert"
    /\ \/ rpc' = [rpc EXCEPT ![t] = "writing"]
       \/ /\ Accessing(t, {"reading", "writing"}) # {}
          /\ rpc' = Crashed
    /\ UNCHANGED <<calls, fetched, depthVars, execVars, auxVars>>

\* the insert is done: the cache holds the fetched rate, stamped time.Now()
InsertEnd(t) ==
    /\ rpc[t] = "writing"
    /\ rateCache' = [exists |-> TRUE, rate |-> fetched[t], age |-> 0]
    /\ fetched' = [fetched EXCEPT ![t] = 0]
    /\ Returned(t)
    /\ UNCHANGED <<dpc, buyBook, sellBook, buyBase, sellBase, ticks, cursor, askLevels,
                   bidLevels, analysis, config>>
    /\ UNCHANGED <<execVars, auxVars>>

\* a minute passes during the detection; the cached rate ages
RateMinutePasses ==
    /\ \E t \in Tasks : rpc[t] \notin {"done", "crashed"}
    /\ ticks < MaxTicks
    /\ ticks' = ticks + 1
    /\ rateCache' = IF CacheValid(rateCache)
                    THEN [rateCache EXCEPT !.age = @ + 1] ELSE rateCache
    /\ UNCHANGED <<dpc, buyBook, sellBook, buyBase, sellBase, cursor, askLevels,
                   bidLevels, analysis, config>>
    /\ UNCHANGED <<execVars, rateVars, auxVars>>

NextRate ==
    \/ \E t \in Tasks : LookupBegin(t)
    \/ \E t \in Tasks : LookupEnd(t)
    \/ \E t \in Tasks : FetchIssue(t)
    \/ \E t \in Tasks : FetchReply(t)
    \/ \E t \in Tasks : InsertBegin(t)
    \/ \E t \in Tasks : InsertEnd(t)
    \/ RateMinutePasses

SpecRate == InitRate /\ [][NextRate]_vars

(* ============================ revalidator =============================== *)
\* Engine.analyzeAndValidateRealTime (ArbitrageExecutor.validateOpportunityRealTime
\* is the same without the depth step)
MaxQuoteLevels == 2

\* program constants: types.DefaultExecutionConfig and literals of engine.go
StopLossPct == 3
QuickMaxLevels == 5
QuickMinVolume == 100
QuickFeePct == 2
SideFeePct == 1

QuotePrices == {100, 105, 106}
QuoteVolumes == {0, 500, 1000, 6000}
QuoteLevel == [price : QuotePrices, volume : QuoteVolumes]

\* one side of a fetched order book: a JSON object keyed by price
QuoteSides ==
    {b \in SUBSET QuoteLevel :
        /\ Cardinality(b) <= MaxQuoteLevels
        /\ \A x, y \in b : x.price = y.price => x = y}

\* GetOrderBook: an error, or the side of the book that the revalidator reads
FetchedBooks(side) ==
    {[err |-> TRUE, asks |-> {}, bids |-> {}]} \cup
    {IF side = "asks" THEN [err |-> FALSE, asks |-> b, bids |-> {}]
                      ELSE [err |-> FALSE, asks |-> {}, bids |-> b] : b \in QuoteSides}

\* the smaller of two float64 values (func min)
Min2(x, y) == IF x < y THEN x ELSE y

\* parseOrderBookLevels: levels with volume > 0, sorted, the first maxLevels
parseOrderBookLevels(side, kind, maxLevels) ==
    LET levels == SortLevels({l \in side : l.volume > 0}, kind)
    IN  SubSeq(levels, 1, Min2(Len(levels), maxLevels))

\* getBestAsk: lowest price with volume > 0, <<0, 0>> when there is none
getBestAsk(orderBook) ==
    LET live == {l \in orderBook.asks : l.volume > 0}
    IN  IF live = {} THEN <<0, 0>>
        ELSE LET best == CHOOSE l \in live : \A m \in live : l.price <= m.price
             IN  <<best.price, best.volume>>

\* getBestBid: highest price with volume > 0, <<0, 0>> when there is none
getBestBid(orderBook) ==
    LET live == {l \in orderBook.bids : l.volume > 0}
    IN  IF live = {} THEN <<0, 0>>
        ELSE LET best == CHOOSE l \in live : \A m \in live : l.price >= m.price
             IN  <<best.price, best.volume>>

\* performQuickDepthAnalysis: the loop; returns orderCount.  netMarginPct <
\* StopLossPct is compared after multiplying both sides by tradeValue
RECURSIVE QuickWalk(_, _, _, _, _)
QuickWalk(buyLevels, sellLevels, buyIdx, sellIdx, orderCount) ==
    IF buyIdx > Len(buyLevels) \/ sellIdx > Len(sellLevels) \/ orderCount >= QuickMaxLevels
    THEN orderCount
    ELSE LET buyLevel == buyLevels[buyIdx]
             sellLevel == sellLevels[sellIdx]
             volume == Min2(buyLevel.volume, sellLevel.volume)
             grossMargin == sellLevel.price - buyLevel.price
             tradeValue == volume * buyLevel.price
             netProfit100 == 100 * grossMargin * volume - QuickFeePct * tradeValue
         IN  IF volume < QuickMinVolume \/ grossMargin <= 0
                \/ netProfit100 < StopLossPct * tradeValue
             THEN orderCount
             ELSE QuickWalk(buyLevels, sellLevels,
                            IF buyLevel.volume <= sellLevel.volume THEN buyIdx + 1 ELSE buyIdx,
                            IF sellLevel.volume <= buyLevel.volume THEN sellIdx + 1 ELSE sellIdx,
                            orderCount + 1)

\* performQuickDepthAnalysis: MaxProfitableOrders of the result
performQuickDepthAnalysis(buyOB, sellOB) ==
    LET buyLevels == parseOrderBookLevels(buyOB.asks, "ask", QuickMaxLevels)
        sellLevels == parseOrderBookLevels(sellOB.bids, "bid", QuickMaxLevels)
    IN  IF buyLevels = <<>> \/ sellLevels = <<>> THEN 0
        ELSE QuickWalk(buyLevels, sellLevels, 1, 1, 0)

\* analyzeAndValidateRealTime: netMarginPct = (netMargin / buyPrice) * 100 with
\* netMargin = (sellPrice - buyPrice) - (buyPrice + sellPrice) * 0.01, kept as
\* the fraction num / den
NetMarginPct(buyPrice, sellPrice) ==
    [num |-> 100 * (sellPrice - buyPrice) - SideFeePct * (buyPrice + sellPrice),
     den |-> buyPrice]

\* mutant of MarginTooLow: the stop-loss threshold is not applied
MarginTooLowNever(marginPct) == FALSE

\* analyzeAndValidateRealTime: "if netMarginPct < e.config.StopLossPct"
MarginTooLow(marginPct) == marginPct.num < StopLossPct * marginPct.den

\* mutant of CappedVolume: the volume is not capped
CappedVolumeUncapped(maxVolume) == maxVolume

\* analyzeAndValidateRealTime: "opp.Volume = min(maxVolume, 5000.0)"
CappedVolume(maxVolume) == Min2(maxVolume, MaxClipVolume)

\* analyzeAndValidateRealTime after the two fetches: steps 2 to 5
ValidateBooks(opp, buyOB, sellOB) ==
    LET depth == performQuickDepthAnalysis(buyOB, sellOB)
        ask == getBestAsk(buyOB)
        bid == getBestBid(sellOB)
        buyPrice == ask[1]
        buyVolume == ask[2]
        sellPrice == bid[1]
        sellVolume == bid[2]
        maxVolume == Min2(buyVolume, sellVolume)
        priced == [opp EXCEPT !.BuyPrice = buyPrice, !.SellPrice = sellPrice,
                                  !.MarginPct = NetMarginPct(buyPrice, sellPrice),
                                  !.MaxProfitableOrders = depth]
    IN  IF depth = 0
        THEN [opp EXCEPT !.Reason = "no profitable depth found"]
        ELSE IF buyPrice = 0 \/ sellPrice = 0
        THEN [opp EXCEPT !.Reason = "no valid prices available"]
        ELSE IF sellPrice <= buyPrice
        THEN [opp EXCEPT !.Reason = "no arbitrage"]
        ELSE IF maxVolume < MinVolume
        THEN [priced EXCEPT !.Reason = "insufficient volume"]
        ELSE IF MarginTooLow(priced.MarginPct)
        THEN [priced EXCEPT !.Reason = "margin too low"]
        ELSE [priced EXCEPT !.Volume = CappedVolume(maxVolume), !.Viable = TRUE,
                            !.Reason = "profitable arbitrage with sufficient depth"]

\* Engine.Execute hands one detected opportunity to the revalidator
RevalInit ==
    /\ apc = "buy_fetch"
    /\ buyQuote \in BaseCurrencies
    /\ sellQuote \in BaseCurrencies
    /\ oracleRate \in Rates
    /\ buyOrderBook = NoBook
    /\ sellOrderBook = NoBook
    /\ realTimeOpp = NoRealTimeOpp

InitReval ==
    /\ RevalInit /\ ExecIdle /\ DepthIdle /\ RateIdle /\ PairIdle /\ DetectIdle /\ RecoveryIdle
    /\ LockIdle

\* "buyOrderBook, err := e.fetcher.GetOrderBook(opp.BuyMarket.Pair)"
RevalFetchBuy ==
    /\ apc = "buy_fetch"
    /\ \E book \in FetchedBooks("asks") :
          /\ buyOrderBook' = book
          /\ IF book.err
             THEN /\ realTimeOpp' = [realTimeOpp EXCEPT !.Reason = "buy market data error"]
                  /\ apc' = "done"
             ELSE /\ apc' = "sell_fetch"
                  /\ UNCHANGED realTimeOpp
    /\ UNCHANGED <<buyQuote, sellQuote, oracleRate, sellOrderBook>>
    /\ UNCHANGED notRevalVars

\* "sellOrderBook, err := e.fetcher.GetOrderBook(opp.SellMarket.Pair)"
RevalFetchSell ==
    /\ apc = "sell_fetch"
    /\ \E book \in FetchedBooks("bids") :
          /\ sellOrderBook' = book
          /\ IF book.err
             THEN /\ realTimeOpp' = [realTimeOpp EXCEPT !.Reason = "sell market data error"]
                  /\ apc' = "done"
             ELSE /\ apc' = "validate"
                  /\ UNCHANGED realTimeOpp
    /\ UNCHANGED <<buyQuote, sellQuote, oracleRate, buyOrderBook>>
    /\ UNCHANGED notRevalVars

\* steps 2 to 5 of analyzeAndValidateRealTime and its return
RevalValidate ==
    /\ apc = "validate"
    /\ realTimeOpp' = ValidateBooks(realTimeOpp, buyOrderBook, sellOrderBook)
    /\ apc' = "done"
    /\ UNCHANGED <<buyQuote, sellQuote, oracleRate, buyOrderBook, sellOrderBook>>
    /\ UNCHANGED notRevalVars

NextReval == RevalFetchBuy \/ RevalFetchSell \/ RevalValidate

SpecReval == InitReval /\ [][NextReval]_vars

(* =========================== pair extraction ============================ *)
\* Analyzer.ExtractArbitragePairs
MaxMarkets == 3

MarketStatuses == {"active", "inactive"}
TargetCurrencies == {"BTC", "ETH"}
QuoteCurrencies == {"INR", "USDT", "EUR"}

\* types.DefaultConfig: ValidCurrencies
ValidCurrencies == {"INR", "USDT", "BTC", "ETH", "BNB", "BUSD", "USDC"}

\* the fields of types.MarketDetail that ExtractArbitragePairs reads; several
\* markets of one target may share a quote currency (they differ in ECode)
MarketDetail ==
    [Status : MarketStatuses, TargetCurrency : TargetCurrencies,
     BaseCurrency : QuoteCurrencies]

MarketLists == UNION {[1..n -> MarketDetail] : n \in 0..MaxMarkets}

\* Analyzer.isValidCurrency
isValidCurrency(enableAll, cur) == enableAll \/ cur \in ValidCurrencies

\* ExtractArbitragePairs, first loop: allPairs[targetCurrency]
AllPairs(ms, target) ==
    SelectSeq(ms, LAMBDA m : m.Status = "active" /\ m.TargetCurrency = target)

\* ExtractArbitragePairs, second loop: validPairs of one group
ValidPairs(ms, enableAll, target) ==
    SelectSeq(AllPairs(ms, target), LAMBDA m : isValidCurrency(enableAll, m.BaseCurrency))

\* ExtractArbitragePairs, second loop: the groups put into arbitragePairs
ExtractedGroups(ms, enableAll) ==
    {[TargetCurrency |-> target, Pairs |-> ValidPairs(ms, enableAll, target)] :
        target \in {t \in TargetCurrencies :
                       /\ Len(AllPairs(ms, t)) >= 2
                       /\ Len(ValidPairs(ms, enableAll, t)) >= 2}}

PairInit ==
    /\ xpc = "fetch"
    /\ markets = <<>>
    /\ enableAllPairs \in BOOLEAN
    /\ arbitragePairs = {}
    /\ extractErr = FALSE

InitPairs ==
    /\ PairInit /\ ExecIdle /\ DepthIdle /\ RateIdle /\ RevalIdle /\ DetectIdle /\ RecoveryIdle
    /\ LockIdle

\* "markets, err := a.fetcher.GetMarketDetails()": an error is returned to the caller
FetchMarketsFails ==
    /\ xpc = "fetch"
    /\ extractErr' = TRUE
    /\ xpc' = "done"
    /\ UNCHANGED <<markets, enableAllPairs, arbitragePairs>>
    /\ UNCHANGED notPairVars

FetchMarkets ==
    /\ xpc = "fetch"
    /\ markets' \in MarketLists
    /\ xpc' = "group"
    /\ UNCHANGED <<enableAllPairs, arbitragePairs, extractErr>>
    /\ UNCHANGED notPairVars

\* the two loops of ExtractArbitragePairs and "return arbitragePairs, nil"
GroupPairs ==
    /\ xpc = "group"
    /\ arbitragePairs' = ExtractedGroups(markets, enableAllPairs)
    /\ xpc' = "done"
    /\ UNCHANGED <<markets, enableAllPairs, extractErr>>
    /\ UNCHANGED notPairVars

NextPairs == FetchMarketsFails \/ FetchMarkets \/ GroupPairs

SpecPairs == InitPairs /\ [][NextPairs]_vars

(* ============================== detector ================================ *)
\* Detector.FindOpportunities, analyzeCurrency, calculateArbitrage
MaxGroupPairs == 3

\* the configurations handed to NewDetector: the default one, and one with
\* the smallest positive liquidity floor
DetectConfigs == {DefaultConfig, [DefaultConfig EXCEPT !.MinLiquidity = 1]}

DetectCurrencies == {"BTC", "ETH"}

\* what getPriceInfo can return for a pair: best prices converted to INR and
\* their volumes; a failed rate conversion leaves that INR price at 0 (the
\* two conversions of a pair succeed or fail one by one)
PriceInfos ==
    {[BestBidINR |-> 98, BestAskINR |-> 100, BidVolume |-> 5, AskVolume |-> 5],
     [BestBidINR |-> 106, BestAskINR |-> 108, BidVolume |-> 5, AskVolume |-> 5],
     [BestBidINR |-> 110, BestAskINR |-> 112, BidVolume |-> 5, AskVolume |-> 5],
     [BestBidINR |-> 0, BestAskINR |-> 0, BidVolume |-> 5, AskVolume |-> 5],
     [BestBidINR |-> 98, BestAskINR |-> 0, BidVolume |-> 5, AskVolume |-> 5],
     [BestBidINR |-> 0, BestAskINR |-> 100, BidVolume |-> 5, AskVolume |-> 5]}

\* the groups handed to FindOpportunities: one per currency, of any size
PairGroupSets ==
    {{[Currency |-> c, Pairs |-> size[c]] : c \in DetectCurrencies} :
        size \in [DetectCurrencies -> 0..MaxGroupPairs]}

\* mutant of HasLiquidity: only the bid side is checked
HasLiquidityBidOnly(priceInfo) ==
    priceInfo.BidVolume * priceInfo.BestBidINR >= config.MinLiquidity

\* analyzeCurrency: "Check liquidity"
HasLiquidity(priceInfo) ==
    /\ priceInfo.BidVolume * priceInfo.BestBidINR >= config.MinLiquidity
    /\ priceInfo.AskVolume * priceInfo.BestAskINR >= config.MinLiquidity

\* mutant of MeetsMinNetMargin: every positive net margin counts
MeetsMinNetMarginPositive(netMarginPct) == netMarginPct.num > 0

\* analyzeCurrency: "if opp.NetMarginPct >= d.config.MinNetMargin"
MeetsMinNetMargin(netMarginPct) == netMarginPct.num >= MinNetMargin * netMarginPct.den

\* calculateArbitrage and the Viable flag set by analyzeCurrency;
\* NetMarginPct = (netMargin / BestAskINR) * 100 is kept as num / den
calculateArbitrage(cur, buyPrice, sellPrice) ==
    LET grossMargin == sellPrice.BestBidINR - buyPrice.BestAskINR
        estimatedFees100 == (buyPrice.BestAskINR + sellPrice.BestBidINR) * FeeRatePct
        netMarginPct == [num |-> 100 * grossMargin - estimatedFees100,
                         den |-> buyPrice.BestAskINR]
    IN  [TargetCurrency |-> cur, BuyMarket |-> buyPrice.Pair, SellMarket |-> sellPrice.Pair,
         BuyPriceINR |-> buyPrice.BestAskINR, SellPriceINR |-> sellPrice.BestBidINR,
         NetMarginPct |-> netMarginPct, Viable |-> MeetsMinNetMargin(netMarginPct)]

\* analyzeCurrency: the opportunities between all pair combinations
CurrencyOpportunities(cur, prices) ==
    {calculateArbitrage(cur, b, s) : <<b, s>> \in {x \in prices \X prices : x[1].Pair # x[2].Pair}}

\* mutant of OnAnalyzeError: an analyzeCurrency error ends FindOpportunities
OnAnalyzeErrorReturns(err) == IF err THEN "return" ELSE "append"

\* FindOpportunities: "if err != nil { log.Printf(...); continue }"
OnAnalyzeError(err) == IF err THEN "continue" ELSE "append"

DetectInit ==
    /\ fpc = "range"
    /\ pairGroups \in PairGroupSets
    /\ unvisited = pairGroups
    /\ currency = ""
    /\ pairIdx = 0
    /\ pairPrices = {}
    /\ failedPairs = {}
    /\ opportunities = {}
    /\ analysed = {}
    /\ findResult = "none"

InitDetect ==
    /\ DetectInit /\ config = DefaultConfig /\ ExecIdle /\ DepthAtRest /\ RateIdle /\ RevalIdle /\ PairIdle /\ RecoveryIdle
    /\ LockIdle

\* FindOpportunities: the next iteration of "for currency, pairGroup := range
\* pairs"; a group of fewer than 2 pairs is skipped
VisitCurrency ==
    /\ fpc = "range"
    /\ \E group \in unvisited :
          /\ unvisited' = unvisited \ {group}
          /\ IF group.Pairs < 2
             THEN /\ analysed' = analysed \cup
                        {[Currency |-> group.Currency, Usable |-> {}, Failed |-> {},
                          Illiquid |-> {}, Outcome |-> "too few pairs"]}
                  /\ UNCHANGED <<fpc, currency>>
             ELSE /\ currency' = group.Currency
                  /\ fpc' = "pairs"
                  /\ UNCHANGED analysed
    /\ pairIdx' = 0
    /\ pairPrices' = {}
    /\ failedPairs' = {}
    /\ UNCHANGED <<pairGroups, opportunities, findResult>>
    /\ UNCHANGED notDetectVars

\* the group that is being analysed
CurrentGroup == CHOOSE group \in pairGroups : group.Currency = currency

\* analyzeCurrency, first loop, one pair: getPriceInfo fails
PriceFetchFails ==
    /\ fpc = "pairs"
    /\ pairIdx < CurrentGroup.Pairs
    /\ pairIdx' = pairIdx + 1
    /\ failedPairs' = failedPairs \cup {pairIdx + 1}
    /\ UNCHANGED <<fpc, pairGroups, unvisited, currency, pairPrices, opportunities,
                   analysed, findResult>>
    /\ UNCHANGED notDetectVars

\* analyzeCurrency, first loop, one pair: getPriceInfo succeeds; the pair is
\* kept when it has liquidity
PriceOnePair ==
    /\ fpc = "pairs"
    /\ pairIdx < CurrentGroup.Pairs
    /\ \E priceInfo \in PriceInfos :
          pairPrices' = IF HasLiquidity(priceInfo)
                        THEN pairPrices \cup
                             {[Pair |-> pairIdx + 1, BestBidINR |-> priceInfo.BestBidINR,
                               BestAskINR |-> priceInfo.BestAskINR]}
                        ELSE pairPrices
    /\ pairIdx' = pairIdx + 1
    /\ UNCHANGED <<fpc, pairGroups, unvisited, currency, failedPairs, opportunities,
                   analysed, findResult>>
    /\ UNCHANGED notDetectVars

\* the pairs of the current group that were priced and are liquid
UsablePairs == {p.Pair : p \in pairPrices}

\* analyzeCurrency after its first loop ("insufficient liquid pairs" or the
\* combinations) and the rest of the loop body of FindOpportunities
CombinePairs ==
    /\ fpc = "pairs"
    /\ pairIdx = CurrentGroup.Pairs
    /\ LET then == OnAnalyzeError(Cardinality(pairPrices) < 2)
           entry0 == [Currency |-> currency, Usable |-> UsablePairs, Failed |-> failedPairs,
                      Illiquid |-> (1..CurrentGroup.Pairs) \ (UsablePairs \cup failedPairs),
                      Outcome |-> ""]
       IN  /\ analysed' = analysed \cup
                 {[entry0 EXCEPT !.Outcome = IF then = "append" THEN "appended"
                                             ELSE "insufficient liquid pairs"]}
           /\ opportunities' = IF then = "append"
                               THEN opportunities \cup CurrencyOpportunities(currency, pairPrices)
                               ELSE opportunities
           /\ fpc' = IF then = "return" THEN "done" ELSE "range"
           /\ findResult' = IF then = "return" THEN "error" ELSE findResult
    /\ UNCHANGED <<pairGroups, unvisited, currency, pairIdx, pairPrices, failedPairs>>
    /\ UNCHANGED notDetectVars

\* FindOpportunities: "return opportunities, nil"
FindReturn ==
    /\ fpc = "range"
    /\ unvisited = {}
    /\ findResult' = "nil"
    /\ fpc' = "done"
    /\ UNCHANGED <<pairGroups, unvisited, currency, pairIdx, pairPrices, failedPairs,
                   opportunities, analysed>>
    /\ UNCHANGED notDetectVars

NextDetect ==
    VisitCurrency \/ PriceFetchFails \/ PriceOnePair \/ CombinePairs \/ FindReturn

SpecDetect == InitDetect /\ [][NextDetect]_vars

\* the detector built with any of its configurations, handed the groups of
\* one currency
InitDetectConfig ==
    /\ DetectInit
    /\ \A group \in pairGroups : group.Currency # "BTC" => group.Pairs = 0
    /\ config \in DetectConfigs
    /\ ExecIdle /\ DepthAtRest /\ RateIdle /\ RevalIdle /\ PairIdle /\ RecoveryIdle /\ LockIdle

SpecDetectConfig == InitDetectConfig /\ [][NextDetect]_vars

(* ------------------- the markets of an attempt's orders ------------------ *)
\* the coins that are traded
CoinCurrencies == {"BTC", "ETH", "XRP"}

\* the currencies that markets are quoted in
FundingCurrencies == {"INR", "USDT", "BTC"}

\* the symbol of a market: the target coin followed by the quote currency
Symbol(market) == market.target \o market.quote

\* strings.Contains
Contains(s, substr) ==
    \E i \in 1..(Len(s) - Len(substr) + 1) : SubSeq(s, i, i + Len(substr) - 1) = substr

\* the opportunities handed to an executor: two different markets of one coin
DetectedOpportunities ==
    {o \in [TargetCurrency : CoinCurrencies,
            BuyMarket : [target : CoinCurrencies, quote : FundingCurrencies],
            SellMarket : [target : CoinCurrencies, quote : FundingCurrencies],
            Viable : BOOLEAN] :
        /\ o.BuyMarket.target = o.TargetCurrency
        /\ o.SellMarket.target = o.TargetCurrency
        /\ o.BuyMarket.quote # o.TargetCurrency
        /\ o.SellMarket.quote # o.TargetCurrency
        /\ o.BuyMarket # o.SellMarket}

\* the filter of Engine.Execute and of executeArbitrageSequentially
PassesFilter(path, opp) ==
    /\ opp.Viable
    /\ IF path = "Execute"
          THEN Contains(Symbol(opp.BuyMarket), "USDT")
          ELSE Contains(Symbol(opp.BuyMarket), "USDT") \/ Contains(Symbol(opp.SellMarket), "USDT")

\* the market of the recovery order
RecoveryMarketOf(cur) == cur \o "USDT"

RecoveryInit ==
    /\ mpc = "filter"
    /\ entry \in {"Execute", "executeArbitrageSequentially"}
    /\ detected \in DetectedOpportunities
    /\ buyOrderMarket = ""
    /\ recoveryMarket = ""

InitRecovery ==
    /\ RecoveryInit
    /\ ExecIdle /\ DepthIdle /\ RateIdle /\ RevalIdle /\ PairIdle /\ DetectIdle /\ LockIdle

\* the executor keeps the opportunity or drops it
FilterOpportunity ==
    /\ mpc = "filter"
    /\ mpc' = IF PassesFilter(entry, detected) THEN "validate" ELSE "dropped"
    /\ UNCHANGED <<entry, detected, buyOrderMarket, recoveryMarket>>
    /\ UNCHANGED notRecoveryVars

\* the revalidation accepts the opportunity or rejects it
RevalidateMarkets ==
    /\ mpc = "validate"
    /\ \E viable \in BOOLEAN : mpc' = IF viable THEN "buy" ELSE "skipped"
    /\ UNCHANGED <<entry, detected, buyOrderMarket, recoveryMarket>>
    /\ UNCHANGED notRecoveryVars

\* the buy order goes to the buy market; it fills or the attempt is aborted
SubmitBuy ==
    /\ mpc = "buy"
    /\ buyOrderMarket' = Symbol(detected.BuyMarket)
    /\ \E filled \in BOOLEAN : mpc' = IF filled THEN "sell" ELSE "aborted"
    /\ UNCHANGED <<entry, detected, recoveryMarket>>
    /\ UNCHANGED notRecoveryVars

\* the sell leg fills, or the attempt goes on to the recovery
SellLeg ==
    /\ mpc = "sell"
    /\ \E filled \in BOOLEAN : mpc' = IF filled THEN "sold" ELSE "recover"
    /\ UNCHANGED <<entry, detected, buyOrderMarket, recoveryMarket>>
    /\ UNCHANGED notRecoveryVars

\* the recovery order is submitted
recoverToUSDT ==
    /\ mpc = "recover"
    /\ recoveryMarket' = RecoveryMarketOf(detected.TargetCurrency)
    /\ mpc' = "recovered"
    /\ UNCHANGED <<entry, detected, buyOrderMarket>>
    /\ UNCHANGED notRecoveryVars

NextRecovery == FilterOpportunity \/ RevalidateMarkets \/ SubmitBuy \/ SellLeg \/ recoverToUSDT

SpecRecovery == InitRecovery /\ [][NextRecovery]_vars

(* --------------------------- the execution lock ------------------------- *)
\* cmd/live main and executeOpportunity; LiveDetector.FindAndExecuteOpportunities
\* and detectAndExecute. The run made while the lock is held is one step here:
\* its steps are those of Spec.
\* the calls that run: the one main of a cmd/live process, or concurrent calls
\* of FindAndExecuteOpportunities on one LiveDetector
LockCallers(p) == IF p = "live" THEN {1} ELSE Callers

NewCaller ==
    [pc |-> "check", unranged |-> LockCurrencies, wg |-> 0, totalOpportunities |-> 0]

\* the state when the calls of the set "running" begin
LockInit(running) ==
    /\ program \in {"live", "detector"}
    /\ scanPairs \in [LockCurrencies -> 1..2]
    /\ caller = [c \in Callers |->
                    IF c \in LockCallers(program) \cap running THEN NewCaller
                    ELSE [NewCaller EXCEPT !.pc = "absent", !.unranged = {}]]
    /\ goroutine = [g \in Goroutines |-> "absent"]
    /\ lockHolder = NoGoroutine
    /\ activeJobs = {}

InitLock ==
    /\ LockInit(Callers)
    /\ ExecIdle /\ DepthIdle /\ RateIdle /\ RevalIdle /\ PairIdle /\ DetectIdle /\ RecoveryIdle

\* the calls of the runs that are checked for progress: two concurrent calls
ProgressCallers == {1, 2}

InitLockProgress ==
    /\ LockInit(ProgressCallers)
    /\ ExecIdle /\ DepthIdle /\ RateIdle /\ RevalIdle /\ PairIdle /\ DetectIdle /\ RecoveryIdle

\* mutant of AlreadyProcessed: LoadOrStore never reports a stored currency
AlreadyProcessedNever(cur, jobs) == FALSE

\* detectAndExecute: "_, exists := ld.activeJobs.LoadOrStore(currency, true)"
AlreadyProcessed(cur, jobs) == cur \in jobs

\* mutant of DeferredUnlock: the return after a failed run keeps the lock
DeferredUnlockOnSuccess(g, err) == IF err THEN g ELSE NoGoroutine

\* "defer executionMutex.Unlock()" / "defer ld.executionMux.Unlock()": the
\* holder of the lock once the goroutine returns, with or without an error
DeferredUnlock(g, err) == NoGoroutine

\* engine.CheckAccountReadiness() at the start of main and of
\* FindAndExecuteOpportunities: an error or an account that is not ready ends
\* the call before any goroutine is launched
CheckAccountReadiness(c) ==
    /\ caller[c].pc = "check"
    /\ \E ready \in BOOLEAN :
          caller' = [caller EXCEPT ![c].pc = IF ready THEN "range" ELSE "returned"]
    /\ UNCHANGED <<program, scanPairs, goroutine, lockHolder, activeJobs>>
    /\ UNCHANGED notLockVars

\* one iteration of "for currency, pairGroup := range pairs". The detector
\* launches detectAndExecute for every group of two pairs or more; main
\* analyses the currency itself and launches executeOpportunity for a viable
\* opportunity with a USDT pair
RangeCurrency(c) ==
    /\ caller[c].pc = "range"
    /\ \E cur \in caller[c].unranged :
          \E launch \in BOOLEAN :
              IF scanPairs[cur] < 2 \/ (program = "live" /\ ~launch)
              THEN /\ caller' = [caller EXCEPT ![c].unranged = @ \ {cur}]
                   /\ UNCHANGED goroutine
              ELSE /\ caller' = [caller EXCEPT ![c].unranged = @ \ {cur},
                                              ![c].wg = @ + 1,
                                              ![c].totalOpportunities = @ + 1]
                   /\ goroutine' = [goroutine EXCEPT ![<<c, cur>>] =
                                        IF program = "live" THEN "wait_lock" ELSE "start"]
    /\ UNCHANGED <<program, scanPairs, lockHolder, activeJobs>>
    /\ UNCHANGED notLockVars

\* the end of the range loop: main returns when it launched nothing
\* ("if totalOpportunities == 0 { ...; return }"), otherwise wg.Wait() is next
RangeEnds(c) ==
    /\ caller[c].pc = "range"
    /\ caller[c].unranged = {}
    /\ caller' = [caller EXCEPT ![c].pc =
                      IF program = "live" /\ caller[c].totalOpportunities = 0
                      THEN "returned" ELSE "wait"]
    /\ UNCHANGED <<program, scanPairs, goroutine, lockHolder, activeJobs>>
    /\ UNCHANGED notLockVars

\* wg.Wait() returns when the counter is zero, and the call returns
WaitReturns(c) ==
    /\ caller[c].pc = "wait"
    /\ caller[c].wg = 0
    /\ caller' = [caller EXCEPT ![c].pc = "returned"]
    /\ UNCHANGED <<program, scanPairs, goroutine, lockHolder, activeJobs>>
    /\ UNCHANGED notLockVars

\* detectAndExecute up to the lock: LoadOrStore; when the currency was stored
\* already the job returns, otherwise it analyses the currency and returns
\* when the analysis fails or finds nothing viable
LoadOrStore(g) ==
    /\ goroutine[g] = "start"
    /\ IF AlreadyProcessed(g[2], activeJobs)
       THEN /\ goroutine' = [goroutine EXCEPT ![g] = "skipped"]
            /\ UNCHANGED activeJobs
       ELSE /\ activeJobs' = activeJobs \cup {g[2]}
            /\ \E viable \in BOOLEAN :
                  goroutine' = [goroutine EXCEPT ![g] = IF viable THEN "wait_lock" ELSE "delete"]
    /\ UNCHANGED <<program, scanPairs, caller, lockHolder>>
    /\ UNCHANGED notLockVars

\* "executionMutex.Lock()" / "ld.executionMux.Lock()" returns
AcquireLock(g) ==
    /\ goroutine[g] = "wait_lock"
    /\ lockHolder = NoGoroutine
    /\ lockHolder' = g
    /\ goroutine' = [goroutine EXCEPT ![g] = "holding"]
    /\ UNCHANGED <<program, scanPairs, caller, activeJobs>>
    /\ UNCHANGED notLockVars

\* the run under the lock (engine.Execute / executeArbitrageSequentially and
\* the saving of the log) ends, with or without an error, and the deferred
\* Unlock runs
ReleaseLock(g) ==
    /\ goroutine[g] = "holding"
    /\ \E err \in BOOLEAN : lockHolder' = DeferredUnlock(g, err)
    /\ goroutine' = [goroutine EXCEPT ![g] = IF program = "detector" THEN "delete" ELSE "wg_done"]
    /\ UNCHANGED <<program, scanPairs, caller, activeJobs>>
    /\ UNCHANGED notLockVars

\* detectAndExecute: "defer ld.activeJobs.Delete(currency)"
DeleteJob(g) ==
    /\ goroutine[g] = "delete"
    /\ activeJobs' = activeJobs \ {g[2]}
    /\ goroutine' = [goroutine EXCEPT ![g] = "wg_done"]
    /\ UNCHANGED <<program, scanPairs, caller, lockHolder>>
    /\ UNCHANGED notLockVars

\* "defer wg.Done()": the last step of the goroutine, after the return of a
\* skipped job or after the other deferred calls
WgDone(g) ==
    /\ goroutine[g] \in {"skipped", "wg_done"}
    /\ caller' = [caller EXCEPT ![g[1]].wg = @ - 1]
    /\ goroutine' = [goroutine EXCEPT ![g] = "finished"]
    /\ UNCHANGED <<program, scanPairs, lockHolder, activeJobs>>
    /\ UNCHANGED notLockVars

CallerStep(c) ==
    CheckAccountReadiness(c) \/ RangeCurrency(c) \/ RangeEnds(c) \/ WaitReturns(c)

GoroutineStep(g) ==
    LoadOrStore(g) \/ AcquireLock(g) \/ ReleaseLock(g) \/ DeleteJob(g) \/ WgDone(g)

NextLock ==
    \/ \E c \in Callers : CheckAccountReadiness(c)
    \/ \E c \in Callers : RangeCurrency(c)
    \/ \E c \in Callers : RangeEnds(c)
    \/ \E c \in Callers : WaitReturns(c)
    \/ \E g \in Goroutines : LoadOrStore(g)
    \/ \E g \in Goroutines : AcquireLock(g)
    \/ \E g \in Goroutines : ReleaseLock(g)
    \/ \E g \in Goroutines : DeleteJob(g)
    \/ \E g \in Goroutines : WgDone(g)

SpecLock == InitLock /\ [][NextLock]_vars

\* The Go scheduler runs every runnable goroutine; a sync.Mutex that is free
\* is handed to a goroutine blocked in Lock; the run under the lock ends (the
\* exchange calls and waitForOrderFill have timeouts).
SpecLockFair ==
    /\ InitLockProgress
    /\ [][NextLock]_vars
    /\ \A c \in ProgressCallers : WF_vars(CallerStep(c))
    /\ \A g \in ProgressCallers \X LockCurrencies : WF_vars(GoroutineStep(g))

(* ======================= properties of Spec ============================= *)
\* positions between the submission of the buy order and the end of the attempt
WindowPcs == {"buy_wait", "buy_status", "sell_create", "sell_wait", "sell_status",
              "recovery_create", "recovery_wait", "recovery_status"}

\* positions inside executeRealTimeOrder
AttemptPcs == WindowPcs \cup {"buy_create"}

InWindow(t) == pc[t] \in WindowPcs

BuyAborts == {"create_error", "no_order", "timeout", "cancelled", "rejected"}

SellFailures == {"create_error", "no_order", "timeout", "cancelled", "rejected"}

PositionLimit == MaxPositionUSDT * USDTINR

\* C1: of the concurrently launched execution tasks of cmd/live (resp. of
\* one LiveDetector), at most one is between the submission of its buy order
\* and the end of its attempt.
SingleFlight ==
    \A t1, t2 \in Tasks : InWindow(t1) /\ InWindow(t2) => t1 = t2

\* a task works its attempt while another one is blocked on the lock
SingleFlightWitness ==
    \E t1, t2 \in Tasks :
        /\ t1 # t2
        /\ InWindow(t1)
        /\ \/ mode = "live" /\ pc[t2] = "start"
           \/ mode = "detector" /\ pc[t2] = "wait_lock"

\* C2: an attempt whose buy leg did not reach the fill (CreateOrder failed or
\* returned no order, the wait timed out, the order was cancelled or rejected)
\* ends with VolumeExecuted = 0, and neither a sell nor a recovery order is
\* submitted for it.
BuyAbortNoLoss ==
    \A t \in Tasks :
        hist[t].buySeen \in BuyAborts =>
            /\ hist[t].ended
            /\ executedOrder[t].VolumeExecuted = 0
            /\ ~executedOrder[t].Success
            /\ run[t].Orders # <<>>
            /\ run[t].Orders[Len(run[t].Orders)].VolumeExecuted = 0
            /\ hist[t].created.sell = 0
            /\ hist[t].created.recovery = 0
            /\ orders[t].sell = NoOrder
            /\ orders[t].recovery = NoOrder

\* the wait for the buy fill timed out and the order filled afterwards
BuyAbortNoLossWitness ==
    \E t \in Tasks :
        /\ hist[t].ended
        /\ hist[t].buySeen = "timeout"
        /\ orders[t].buy.status = "filled"

\* C3: when the buy leg filled and the sell leg failed (CreateOrder error or
\* empty response, wait timed out, order cancelled or rejected), exactly one
\* recovery order is submitted, for the executed buy volume; the attempt ends
\* recovered (profit computed from the recovery fill) or with "recovery
\* failed", with VolumeExecuted > 0.
RecoveryCompleteness ==
    \A t \in Tasks :
        hist[t].buySeen = "filled" /\ hist[t].sellSeen \in SellFailures =>
            /\ hist[t].created.recovery <= 1
            /\ executedOrder[t].VolumeExecuted > 0
            /\ pc[t] \in {"recovery_create", "recovery_wait", "recovery_status"} \/ hist[t].ended
            /\ hist[t].ended =>
                 /\ hist[t].created.recovery = 1
                 /\ hist[t].recoveryQty = executedOrder[t].VolumeExecuted
                 /\ hist[t].recoveryQty = orders[t].buy.total - orders[t].buy.remaining
                 /\ \/ /\ executedOrder[t].Success
                       /\ hist[t].recoverySeen = "filled"
                       /\ orders[t].recovery.status = "filled"
                       /\ executedOrder[t].SellOrderID = "recovery"
                       /\ executedOrder[t].SellPrice = orders[t].recovery.avg_price
                       /\ executedOrder[t].ActualProfit =
                             executedOrder[t].VolumeExecuted * orders[t].recovery.avg_price
                             - executedOrder[t].VolumeExecuted * orders[t].buy.avg_price
                             - (orders[t].buy.fee_amount + orders[t].recovery.fee_amount)
                    \/ /\ ~executedOrder[t].Success
                       /\ executedOrder[t].ErrorMessage = "recovery failed"
                       /\ executedOrder[t].ActualProfit = 0

\* the sell order was rejected and the recovery order filled
RecoveryCompletenessWitness ==
    \E t \in Tasks :
        /\ hist[t].ended
        /\ hist[t].buySeen = "filled"
        /\ hist[t].sellSeen = "rejected"
        /\ executedOrder[t].Success
        /\ executedOrder[t].SellOrderID = "recovery"

\* C4: an attempt whose buy order was observed as filled does not end
\* without a sell order or a recovery order having been submitted.
BuyFilledProceedsToSell ==
    \A t \in Tasks :
        hist[t].ended /\ hist[t].buySeen = "filled" =>
            hist[t].created.sell + hist[t].created.recovery >= 1

\* C5: after an attempt was aborted at the buy leg by a timeout or by a
\* cancelled/rejected status, the buy order can no longer fill (no position
\* is held from the attempt).
BuyAbortHoldsNoPosition ==
    \A t \in Tasks :
        hist[t].ended /\ hist[t].buySeen \in {"timeout", "cancelled", "rejected"} =>
            orders[t].buy.status \in {"cancelled", "rejected"}

\* C6: every order placement of every entry point happens while the task
\* holds one and the same process-wide execution lock.
AllPlacementsUnderOneLock ==
    \A t \in Tasks : pc[t] \in AttemptPcs => executionMutex = t

\* the lock a task of cmd/live resp. of a LiveDetector works under
HoldsExecutionLock(t) ==
    /\ mode = "live" => executionMutex = t
    /\ mode = "detector" => executionMux = t

\* C7: a detection/execution task submits orders only while it holds the
\* execution lock and after the revalidation made under the lock returned
\* Viable; an opportunity revalidated as non-viable leads to no order.
RevalidatedUnderLock ==
    \A t \in Tasks :
        /\ (pc[t] \in AttemptPcs \/ orders[t] # NoOrders
              \/ hist[t].created # NoHist.created) =>
                 hist[t].revalidated = "viable" /\ HoldsExecutionLock(t)
        /\ hist[t].revalidated = "nonviable" =>
                 orders[t] = NoOrders /\ hist[t].created = NoHist.created

\* a detector task placed its buy order under the lock after a viable revalidation
RevalidatedUnderLockWitness ==
    \E t \in Tasks :
        /\ mode = "detector"
        /\ executionMux = t
        /\ hist[t].revalidated = "viable"
        /\ hist[t].created.buy = 1
        /\ orders[t].buy.status = "open"

\* C8: once the investment summed over the whole run has reached
\* MaxPositionUSDT, no task of the run starts a further attempt.
PositionLimitStopsRun ==
    [][runInvested >= PositionLimit =>
          \A t \in Tasks : pc'[t] = "buy_create" => pc[t] = "buy_create"]_vars

\* C9: within an attempt, a sell order or a recovery order is submitted only
\* after the polling has observed the buy order as filled.
SellAfterBuyFill ==
    \A t \in Tasks :
        (pc[t] \in WindowPcs \ {"buy_wait"} \/ hist[t].created.sell > 0
            \/ hist[t].created.recovery > 0) =>
                 hist[t].buySeen = "filled" /\ orders[t].buy.status = "filled"

\* both a sell order and a recovery order were submitted after the buy fill
SellAfterBuyFillWitness ==
    \E t \in Tasks :
        /\ hist[t].buySeen = "filled"
        /\ hist[t].created.sell = 1
        /\ hist[t].created.recovery = 1

RecoveryFailures == {"create_error", "no_order", "timeout", "cancelled", "rejected",
                     "status_error"}

\* the last ExecutedOrder appended to result.Orders by the task's Execute
LastOrder(t) == run[t].Orders[Len(run[t].Orders)]

\* C15: when the recovery order fails (CreateOrder error or empty response,
\* no fill within the timeout, cancelled or rejected, final status error),
\* the attempt is recorded as failed with the reason "recovery failed", no
\* second recovery order is submitted, and Execute is back at its loop head
\* to process the remaining opportunities.
RecoveryFailureContinues ==
    \A t \in Tasks :
        hist[t].recoverySeen \in RecoveryFailures =>
            /\ hist[t].ended
            /\ hist[t].created.recovery = 1
            /\ ~executedOrder[t].Success
            /\ executedOrder[t].ErrorMessage = "recovery failed"
            /\ run[t].Orders # <<>>
            /\ LastOrder(t) = executedOrder[t]
            /\ pc[t] = "loop"

\* a recovery failed and the run still has an opportunity to process
RecoveryFailureContinuesWitness ==
    \E t \in Tasks :
        /\ hist[t].recoverySeen \in RecoveryFailures
        /\ pc[t] = "loop"
        /\ queue[t] > 0

\* the attempt ended with the filled order of its sell leg read back
SellLegFilled(t) ==
    /\ hist[t].ended
    /\ hist[t].sellSeen = "filled"
    /\ hist[t].created.recovery = 0

\* the attempt ended with the filled order of its recovery leg read back
RecoveryLegFilled(t) ==
    /\ hist[t].ended
    /\ hist[t].recoverySeen = "filled"

WaitLeg == [buy_wait |-> "buy", sell_wait |-> "sell", recovery_wait |-> "recovery"]

WaitSuccess == [buy_wait |-> "buy_status", sell_wait |-> "sell_status",
                recovery_wait |-> "recovery_status"]

\* what the wait for the leg observed when it ended
SeenOf(h, leg) ==
    CASE leg = "buy" -> h.buySeen
      [] leg = "sell" -> h.sellSeen
      [] leg = "recovery" -> h.recoverySeen

\* C18: waitForOrderFill ends only on a terminal order status or on the
\* timeout; it succeeds if and only if it observed "filled", fails at once
\* on "cancelled" or "rejected"; a GetOrderStatus error or another status
\* never ends the wait.
WaitEndsOnTerminalOrTimeout ==
    [][\A t \in Tasks : \A w \in DOMAIN WaitLeg :
          pc[t] = w /\ pc'[t] # w =>
              LET seen == SeenOf(hist'[t], WaitLeg[w]) IN
              /\ seen \in {"filled", "cancelled", "rejected", "timeout"}
              /\ seen # "timeout" => orders[t][WaitLeg[w]].status = seen
              /\ (pc'[t] = WaitSuccess[w]) <=> (seen = "filled")]_vars

\* a wait went on after a tick that gave no terminal status and then ended
\* at once on a cancelled order
WaitEndsOnTerminalOrTimeoutWitness ==
    \E t \in Tasks :
        /\ hist[t].buySeen = "cancelled"
        /\ polls[t] > 0
        /\ hist[t].ended

\* C19: every started attempt terminates, whatever the exchange answers:
\* executeRealTimeOrder eventually returns, after at most one polling wait
\* per leg (buy, sell, recovery).
AttemptTerminates ==
    /\ \A t \in Participants("batch") : (pc[t] = "buy_create") ~> hist[t].ended
    /\ [](\A t \in Tasks : \A leg \in Legs : hist[t].created[leg] <= 1)

\* an attempt returned after its sell wait and its recovery wait both timed out
AttemptTerminatesWitness ==
    \E t \in Tasks :
        /\ hist[t].ended
        /\ hist[t].buySeen = "filled"
        /\ hist[t].sellSeen = "timeout"
        /\ hist[t].recoverySeen = "timeout"
        /\ orders[t].recovery.status = "open"

\* the step ends the processing of one opportunity of the task's Execute loop
OpportunityProcessed(t) == queue[t] > 0 /\ queue'[t] = queue[t] - 1

\* C21: every opportunity processed by a run leaves exactly one recorded
\* outcome in the ExecutionResult: the step that ends its processing appends
\* exactly one entry to result.Orders, whatever the outcome is.
EveryOutcomeRecorded ==
    [][\A t \in Tasks :
          OpportunityProcessed(t) => Len(run'[t].Orders) = Len(run[t].Orders) + 1]_vars

AttemptsWithinMaxOrders ==
    \A t \in Tasks : Len(run[t].Orders) <= MaxOrdersPerRun

\* the quantity of an order that has been or can still be filled
Fillable(o) == IF o.status \in {"open", "filled"} THEN o.total ELSE 0

\* C36: within one attempt the inventory is sold at most once: the quantity
\* that the sell order and the recovery order together can fill never exceeds
\* the executed buy volume, and a recovery order is submitted only when the
\* sell order was not placed or can no longer fill.
InventorySoldOnce ==
    \A t \in Tasks :
        orders[t].recovery.status # "none" =>
            /\ orders[t].sell.status \in {"none", "cancelled", "rejected"}
            /\ Fillable(orders[t].sell) + Fillable(orders[t].recovery)
                   <= executedOrder[t].VolumeExecuted

\* the sum of an amount over the successful ones of the first k orders
RECURSIVE SumOfSuccessful(_, _, _)
SumOfSuccessful(os, k, amount) ==
    IF k = 0 THEN 0
    ELSE SumOfSuccessful(os, k - 1, amount) +
         (IF ~os[k].Success THEN 0
          ELSE CASE amount = "profit" -> os[k].ActualProfit
                 [] amount = "investment" -> os[k].VolumeExecuted * os[k].BuyPrice
                 [] amount = "count" -> 1)

\* C38: for every returned ExecutionResult, TotalProfit is the sum of
\* ActualProfit over exactly the recorded orders with Success = true,
\* TotalInvestment the sum of their buy notionals (attempts with Success =
\* false contribute to neither), Successful holds iff TotalProfit > 0, and the
\* success rate is the share of Success = true orders, 0 without orders.
ResultAggregates ==
    \A t \in Tasks :
        run[t].returned =>
            LET os == run[t].Orders
                rate == calculateSuccessRate(run[t])
            IN  /\ run[t].TotalProfit = SumOfSuccessful(os, Len(os), "profit")
                /\ run[t].TotalInvestment = SumOfSuccessful(os, Len(os), "investment")
                /\ run[t].Successful <=> run[t].TotalProfit > 0
                /\ rate.den > 0
                /\ Len(os) = 0 => rate.num = 0
                /\ rate.num * Len(os) = 100 * SumOfSuccessful(os, Len(os), "count") * rate.den

\* a returned run of a failed and a profitable attempt, and one without profit
ResultAggregatesWitness ==
    \E t \in Tasks :
        /\ run[t].returned
        /\ Len(run[t].Orders) = 2
        /\ \E j, k \in 1..2 : ~run[t].Orders[j].Success /\ run[t].Orders[k].Success
        /\ run[t].Successful
        /\ calculateSuccessRate(run[t]).num = 50 * calculateSuccessRate(run[t]).den

(* ==================== properties of SpecShutdown ======================== *)
\* the task was stopped between the observed buy fill and the end of its attempt
StoppedPastBuyFill(t) ==
    /\ pc[t] = "killed"
    /\ hist[t].buySeen = "filled"
    /\ ~hist[t].ended

\* C20: a process-level shutdown signal starts no new attempt and does not
\* abort an attempt that is past the buy-fill point: such an attempt has run
\* to its end when the process is gone.
ShutdownCompletesInFlight == \A t \in Tasks : ~StoppedPastBuyFill(t)

(* ===================== properties of SpecDepth ========================== *)
\* C10: the netMarginPct values of the recorded fills, in OrderSimulations
\* order, form a non-increasing sequence (fractions compared by cross
\* multiplication; the denominators are positive).
MonotonicDepthDecay ==
    dpc = "done" =>
        \A i \in 1..(Len(analysis.OrderSimulations) - 1) :
            LET a == analysis.OrderSimulations[i]
                b == analysis.OrderSimulations[i + 1]
            IN  a.NetMarginPctNum * b.NetMarginPctDen >= b.NetMarginPctNum * a.NetMarginPctDen

\* the cursor pairs of the walk over the converted books
DepthCursors == WalkCursors(askLevels, bidLevels, 1, 1)

\* volume of the first k fills taken at level i of a side (1: asks, 2: bids)
RECURSIVE FilledAgainst(_, _, _)
FilledAgainst(side, i, k) ==
    IF k = 0 THEN 0
    ELSE FilledAgainst(side, i, k - 1) +
         (IF DepthCursors[k][side] = i THEN analysis.OrderSimulations[k].Volume ELSE 0)

\* C11: the volume filled in total against any single ask level or bid level
\* never exceeds the volume of that level (each trade volume being bounded
\* by what remains at the two current levels).
TradeVolumeWithinRemaining ==
    dpc = "done" =>
        LET n == Len(analysis.OrderSimulations) IN
        /\ \A i \in 1..Len(askLevels) : FilledAgainst(1, i, n) <= askLevels[i].Volume
        /\ \A i \in 1..Len(bidLevels) : FilledAgainst(2, i, n) <= bidLevels[i].Volume

\* net margin of the step at cursor pair c reaches the threshold:
\* ((sell - buy) - FeeRate * buy) / buy * 100 >= MinNetMargin
StepReachesThreshold(c) ==
    LET buy == askLevels[c[1]].PriceINR
        sell == bidLevels[c[2]].PriceINR
    IN  100 * (sell - buy) - config.FeeRatePct * buy >= config.MinNetMargin * buy

\* C12: the walk stops at the first step whose net margin is below the
\* threshold: the recorded fills are the steps before the first sub-threshold
\* step, each of them reaches the threshold, and a sub-threshold top of book
\* gives no fill.
StopsAtFirstSubThreshold ==
    dpc = "done" /\ BestINR(askLevels) < BestINR(bidLevels) =>
        LET n == Len(analysis.OrderSimulations) IN
        /\ n <= Len(DepthCursors)
        /\ analysis.MaxProfitableOrders = n
        /\ \A k \in 1..n :
              /\ StepReachesThreshold(DepthCursors[k])
              /\ analysis.OrderSimulations[k].BuyPrice = askLevels[DepthCursors[k][1]].PriceINR
              /\ analysis.OrderSimulations[k].SellPrice = bidLevels[DepthCursors[k][2]].PriceINR
        /\ n < Len(DepthCursors) => ~StepReachesThreshold(DepthCursors[n + 1])
        /\ Len(DepthCursors) > 0 /\ ~StepReachesThreshold(<<1, 1>>) => n = 0

\* one fill was recorded and the walk stopped at a sub-threshold second step
StopsAtFirstSubThresholdWitness ==
    /\ dpc = "done"
    /\ Len(analysis.OrderSimulations) = 1
    /\ Len(DepthCursors) >= 2
    /\ ~StepReachesThreshold(DepthCursors[2])

\* the top of book has a positive gross margin below the threshold: no fill
StopsAtTopOfBookWitness ==
    /\ dpc = "done"
    /\ askLevels # <<>>
    /\ BestINR(askLevels) < BestINR(bidLevels)
    /\ ~StepReachesThreshold(<<1, 1>>)
    /\ analysis.OrderSimulations = <<>>

\* the sum of one field over the first k recorded fills
RECURSIVE SumOfFills(_, _)
SumOfFills(field, k) ==
    IF k = 0 THEN 0 ELSE SumOfFills(field, k - 1) + analysis.OrderSimulations[k][field]

\* C25: MaxProfitableOrders equals the number of recorded fills,
\* TotalEstimatedProfit equals the sum of the fills' net profits (the
\* cumulative profit of the last fill) and TotalProfitableVolume equals the
\* sum of the fills' volumes.
DepthTotalsConsistent ==
    dpc = "done" =>
        LET n == Len(analysis.OrderSimulations) IN
        /\ analysis.MaxProfitableOrders = n
        /\ analysis.TotalEstimatedProfit = SumOfFills("NetMargin100", n)
        /\ analysis.TotalProfitableVolume = SumOfFills("Volume", n)
        /\ n > 0 => analysis.TotalEstimatedProfit =
                        analysis.OrderSimulations[n].Cumulative.NetProfit100

\* a result with two recorded fills of different volumes
DepthTotalsConsistentWitness ==
    /\ dpc = "done"
    /\ Len(analysis.OrderSimulations) = 2
    /\ analysis.OrderSimulations[1].Volume # analysis.OrderSimulations[2].Volume
    /\ analysis.TotalProfitableVolume =
           analysis.OrderSimulations[1].Volume + analysis.OrderSimulations[2].Volume

\* the scenario of one ask level 100 @ 50 against one bid level 110 @ 50,
\* both quoted in INR, with the default fee rate and threshold of 2%
ScenarioOne ==
    /\ buyBook = {[price |-> 100, volume |-> 50]}
    /\ sellBook = {[price |-> 110, volume |-> 50]}
    /\ buyBase = "INR"
    /\ sellBase = "INR"
    /\ config = DefaultConfig

\* C26: each recorded fill has fee = volume * buyPrice * feeRate, netProfit =
\* (sellPrice - buyPrice) * volume - fee and netMarginPct = netProfit /
\* (volume * buyPrice) * 100; the scenario 100 @ 50 against 110 @ 50 gives
\* exactly one fill of volume 50 with net profit 400 and net margin 8%.
FillAccounting ==
    dpc = "done" =>
        /\ \A k \in 1..Len(analysis.OrderSimulations) :
              LET f == analysis.OrderSimulations[k] IN
              /\ f.EstimatedFees100 = f.Volume * f.BuyPrice * config.FeeRatePct
              /\ f.NetMargin100 = 100 * (f.SellPrice - f.BuyPrice) * f.Volume - f.EstimatedFees100
              /\ f.NetMarginPctNum * (f.Volume * f.BuyPrice) = f.NetMargin100 * f.NetMarginPctDen
        /\ ScenarioOne =>
              /\ Len(analysis.OrderSimulations) = 1
              /\ analysis.OrderSimulations[1].Volume = 50
              /\ analysis.OrderSimulations[1].NetMargin100 = 400 * 100
              /\ analysis.OrderSimulations[1].NetMarginPctNum =
                     8 * analysis.OrderSimulations[1].NetMarginPctDen

\* the scenario was simulated
FillAccountingWitness == dpc = "done" /\ ScenarioOne /\ analysis.MaxProfitableOrders = 1

\* C32: the simulator classifies the end of the walk: BottleneckSide is "buy"
\* when the ask cursor ran out of levels, "sell" when the bid cursor ran out of
\* levels, and "none" when the walk ended on margin decay with levels left on
\* both sides.
BottleneckClassified ==
    (dpc = "done" /\ BestINR(askLevels) < BestINR(bidLevels)) =>
        LET w == Walk(askLevels, bidLevels, 1, 1, 1, <<>>)
        IN  analysis.BottleneckSide =
                IF w.buyLevelIdx > Len(askLevels) THEN "buy"
                ELSE IF w.sellLevelIdx > Len(bidLevels) THEN "sell"
                ELSE "none"

\* C33: for every value of the fee rate and of the minimum net margin, the
\* depth simulator never records a fill whose gross margin is <= 0: each
\* recorded fill has a sell price strictly greater than its buy price.
NoFillWithoutGrossMargin ==
    dpc = "done" =>
        \A k \in 1..Len(analysis.OrderSimulations) :
            analysis.OrderSimulations[k].SellPrice > analysis.OrderSimulations[k].BuyPrice

(* ====================== properties of SpecRate ========================== *)
\* C13: calls made while the cache holds a rate younger than the TTL issue no
\* further upstream fetch (one fetch per TTL window in total): no ticker
\* request is sent while the cached rate is valid.
IdempotentRateCache ==
    [][\A t \in Tasks :
          rpc[t] = "fetch" /\ rpc'[t] = "fetching" => ~CacheValid(rateCache)]_vars

\* C14: a read of the rate cache never overlaps a write of it, and a task in
\* its fetch-and-insert step holds the cache exclusively.
CacheAccessExclusive ==
    \A t \in Tasks :
        /\ rpc[t] = "writing" => Accessing(t, {"reading", "writing"}) = {}
        /\ rpc[t] \in {"fetching", "insert", "writing"} =>
              Accessing(t, {"fetching", "insert", "writing"}) = {}

(* ====================== properties of SpecReval ========================= *)
\* the best prices and volumes of the two fetched books
BestAskPrice == getBestAsk(buyOrderBook)[1]
BestAskVolume == getBestAsk(buyOrderBook)[2]
BestBidPrice == getBestBid(sellOrderBook)[1]
BestBidVolume == getBestBid(sellOrderBook)[2]

\* one of the rejection conditions holds for the fetched data
MustReject ==
    \/ buyOrderBook.err
    \/ sellOrderBook.err
    \/ BestAskPrice = 0
    \/ BestBidPrice = 0
    \/ BestBidPrice <= BestAskPrice
    \/ BestAskVolume < MinVolume
    \/ BestBidVolume < MinVolume
    \/ 100 * (BestBidPrice - BestAskPrice) - (BestAskPrice + BestBidPrice)
          < StopLossPct * BestAskPrice

\* C22: the revalidator always returns a result; the result is non-viable
\* with a non-empty reason whenever a fetch failed, a side has no valid price,
\* sellPrice <= buyPrice, the top-of-book volume is below the floor or the
\* net margin is below StopLossPct, and it is viable only when none of these
\* holds.
RevalidatorRejects ==
    apc = "done" =>
        /\ MustReject => ~realTimeOpp.Viable
        /\ ~realTimeOpp.Viable => realTimeOpp.Reason # ""
        /\ realTimeOpp.Viable => ~MustReject

\* rejected only for its margin: prices and volumes are fine, the net margin
\* is below the stop-loss threshold
RevalidatorRejectsWitness ==
    /\ apc = "done"
    /\ ~realTimeOpp.Viable
    /\ realTimeOpp.Reason = "margin too low"
    /\ BestBidPrice > BestAskPrice
    /\ BestAskVolume >= MinVolume
    /\ BestBidVolume >= MinVolume

\* C23: a viable result carries Volume = min(bestAskVolume, bestBidVolume,
\* maxClipVolume), which lies between the volume floor and the clip volume.
ViableVolumeClipped ==
    apc = "done" /\ realTimeOpp.Viable =>
        /\ realTimeOpp.Volume = Min2(Min2(BestAskVolume, BestBidVolume), MaxClipVolume)
        /\ realTimeOpp.Volume >= MinVolume
        /\ realTimeOpp.Volume <= MaxClipVolume

\* a viable result whose top-of-book volume exceeds the clip volume
ViableVolumeClippedWitness ==
    /\ apc = "done"
    /\ realTimeOpp.Viable
    /\ BestAskVolume > MaxClipVolume
    /\ BestBidVolume > MaxClipVolume
    /\ realTimeOpp.Volume = MaxClipVolume

\* a native price in the common unit of the Rate Oracle
InINR(price, quote) == IF quote = "INR" THEN price ELSE price * oracleRate

\* C24: for markets with different quote currencies an opportunity is viable
\* only if its sell price converted to INR exceeds its buy price converted to
\* INR and the net margin on the converted prices reaches the threshold.
ViableInCommonUnit ==
    apc = "done" /\ realTimeOpp.Viable /\ buyQuote # sellQuote =>
        LET buyINR == InINR(realTimeOpp.BuyPrice, buyQuote)
            sellINR == InINR(realTimeOpp.SellPrice, sellQuote)
        IN  /\ sellINR > buyINR
            /\ 100 * (sellINR - buyINR) - (buyINR + sellINR) >= StopLossPct * buyINR

(* ====================== properties of SpecPairs ========================= *)
\* the quote currencies of the markets of a group
QuotesOf(group) == {group.Pairs[i].BaseCurrency : i \in 1..Len(group.Pairs)}

\* C27: every returned candidate group contains only active markets of its
\* target currency, only allow-listed quote currencies unless EnableAllPairs
\* is set, and at least 2 markets with distinct quote currencies; without
\* such a group the result is empty and no error is returned.
GroupsAreCandidates ==
    xpc = "done" /\ ~extractErr =>
        \A group \in arbitragePairs :
            /\ \A i \in 1..Len(group.Pairs) :
                  /\ group.Pairs[i].Status = "active"
                  /\ group.Pairs[i].TargetCurrency = group.TargetCurrency
                  /\ enableAllPairs \/ group.Pairs[i].BaseCurrency \in ValidCurrencies
            /\ Len(group.Pairs) >= 2
            /\ Cardinality(QuotesOf(group)) >= 2

(* ====================== properties of SpecDetect ======================== *)
\* the opportunities collected for a currency
OpportunitiesOf(cur) == {o \in opportunities : o.TargetCurrency = cur}

\* C28: a market-data failure is never fatal to detection: a fetch error for
\* one pair only skips that pair, a currency left with fewer than two usable
\* pairs is only skipped, the remaining currencies are still analysed and
\* FindOpportunities returns no error.
DetectionSurvivesFailures ==
    fpc = "done" =>
        /\ findResult = "nil"
        /\ \A group \in pairGroups : \E a \in analysed : a.Currency = group.Currency
        /\ \A a \in analysed :
              /\ Cardinality(a.Usable) >= 2 <=> a.Outcome = "appended"
              /\ a.Outcome # "appended" => OpportunitiesOf(a.Currency) = {}
              /\ a.Outcome = "appended" =>
                    /\ \A b, s \in a.Usable :
                          b # s => \E o \in OpportunitiesOf(a.Currency) :
                                       o.BuyMarket = b /\ o.SellMarket = s
                    /\ \A o \in OpportunitiesOf(a.Currency) :
                          o.BuyMarket \in a.Usable /\ o.SellMarket \in a.Usable

\* one currency lost a pair to a fetch error and was analysed with the other
\* two, the other currency was skipped for too few usable pairs
DetectionSurvivesFailuresWitness ==
    /\ fpc = "done"
    /\ \E a, b \in analysed :
          /\ a.Outcome = "appended"
          /\ Cardinality(a.Failed) = 1
          /\ OpportunitiesOf(a.Currency) # {}
          /\ b.Outcome = "insufficient liquid pairs"
          /\ b.Failed # {}

\* C29: every produced opportunity that is marked Viable has NetMarginPct >=
\* MinNetMargin, and every produced opportunity with NetMarginPct >=
\* MinNetMargin is marked Viable.
ViableIffMinNetMargin ==
    \A o \in opportunities :
        /\ o.NetMarginPct.den > 0
        /\ o.NetMarginPct.num =
              100 * (o.SellPriceINR - o.BuyPriceINR) - FeeRatePct * (o.BuyPriceINR + o.SellPriceINR)
        /\ o.NetMarginPct.den = o.BuyPriceINR
        /\ o.Viable <=> o.NetMarginPct.num >= MinNetMargin * o.NetMarginPct.den

\* a viable opportunity, and one whose positive net margin is below the minimum
ViableIffMinNetMarginWitness ==
    /\ \E o \in opportunities : o.Viable
    /\ \E o \in opportunities : ~o.Viable /\ o.NetMarginPct.num > 0

(* ===================== properties of SpecRecovery ======================= *)
\* C39: a price whose INR conversion failed never produces an opportunity:
\* for every MinLiquidity > 0 a pair with an unconverted (0) INR price is
\* excluded by the liquidity check, so no opportunity, viable or not, has a
\* zero INR buy price.
UnconvertedPriceExcluded ==
    config.MinLiquidity > 0 =>
        /\ \A p \in pairPrices : p.BestBidINR > 0 /\ p.BestAskINR > 0
        /\ \A o \in opportunities : o.BuyPriceINR > 0 /\ o.SellPriceINR > 0

\* with the smallest positive floor, a currency lost a pair to the liquidity
\* check (only pairs with an unconverted price are illiquid here) and still
\* produced a viable opportunity from its other pairs
UnconvertedPriceExcludedWitness ==
    /\ config.MinLiquidity = 1
    /\ \E e \in analysed :
          /\ e.Illiquid # {}
          /\ e.Outcome = "appended"
          /\ \E o \in OpportunitiesOf(e.Currency) : o.Viable

(* ===================== properties of SpecLock =========================== *)
\* detectAndExecute between its LoadOrStore that stored the currency and its
\* deferred Delete
ActiveJobPositions == {"wait_lock", "holding", "delete"}

ActiveJobsOf(cur) ==
    {g \in Goroutines : g[2] = cur /\ goroutine[g] \in ActiveJobPositions}

\* C37: at most one detectAndExecute job is active per currency: a second job
\* for a currency that is being processed returns without analysing or
\* executing, and the entry of a job is removed from activeJobs on every exit
\* path, so the currency is stored exactly while a job is active.
OneJobPerCurrency ==
    program = "detector" =>
        \A cur \in LockCurrencies :
            /\ Cardinality(ActiveJobsOf(cur)) <= 1
            /\ cur \in activeJobs <=> ActiveJobsOf(cur) # {}

\* a job holds the lock while a second job for its currency has returned at
\* the LoadOrStore check, and a job of the other currency ended and removed
\* its entry
OneJobPerCurrencyWitness ==
    \E g, h, k \in Goroutines :
        /\ g[2] = h[2]
        /\ k[2] # g[2]
        /\ goroutine[g] = "holding"
        /\ goroutine[h] = "skipped"
        /\ goroutine[k] = "finished"
        /\ activeJobs = {g[2]}

\* every call of the entry point has returned
AllReturned == \A c \in Callers : caller[c].pc \in {"absent", "returned"}

\* C31: no task starves on the execution lock: every goroutine that blocks on
\* the lock eventually acquires it, the lock is released on every exit path
\* (only a goroutine inside the locked run holds it), and every call of
\* FindAndExecuteOpportunities / cmd/live main returns, once all its goroutines
\* have finished, leaving the lock free.
NoStarvation ==
    /\ \A g \in Goroutines : (goroutine[g] = "wait_lock") ~> (lockHolder = g)
    /\ [](\A g \in Goroutines : lockHolder = g => goroutine[g] = "holding")
    /\ [](\A c \in Callers : caller[c].pc = "returned" =>
              \A cur \in LockCurrencies : goroutine[<<c, cur>>] \in {"absent", "finished"})
    /\ [](AllReturned => lockHolder = NoGoroutine)
    /\ <>[]AllReturned

\* main has returned after both of its goroutines took the lock in turn and
\* finished
NoStarvationWitness ==
    /\ program = "live"
    /\ caller[1].pc = "returned"
    /\ \A cur \in LockCurrencies : goroutine[<<1, cur>>] = "finished"
    /\ lockHolder = NoGoroutine

\* C30: the recovery order sells back into the base funding currency: for
\* every attempt started by Engine.Execute or by executeArbitrageSequentially
\* the market of the recovery order is the target coin against the quote
\* currency of the market on which the buy leg was executed.
RecoveryIntoBuyQuote ==
    mpc = "recovered" =>
        /\ buyOrderMarket = Symbol(detected.BuyMarket)
        /\ recoveryMarket = detected.TargetCurrency \o detected.BuyMarket.quote

====
